---- MODULE Spec2Model ----
(***************************************************************************)
(* Recorder / uploader pipeline of src/src/lib/daydream.ts:                *)
(*   VideoRecorder (MediaRecorder wrapper), uploadToLivepeer, and the      *)
(*   StudioRecorder component (startRecording, stopRecording, unmount).    *)
(* Further components, each with a specification of its own:               *)
(*   createDaydreamStream and its background parameter update, the Login   *)
(*   page, the redeem-ticket edge function, the clip_likes tables.         *)
(*                                                                         *)
(* Execution model: JavaScript run-to-completion.  Every `await` is a      *)
(* yield point.  A continuation whose awaited promise is already settled   *)
(* when the await is reached waits in the microtask queue (microQ, FIFO);  *)
(* event-loop tasks (encoder events, timers, network responses) run only   *)
(* when microQ is empty, while calls made by the component's owner         *)
(* (startRecording, stopRecording, unmount) may come at any point.         *)
(* Where a promise is settled by an event-loop task, the task and the      *)
(* continuation it releases are one action: the settlement itself changes  *)
(* no state a call can read.                                               *)
(***************************************************************************)
EXTENDS Integers, Sequences, FiniteSets, TLC

\* ------------------------------------------------------------------ bounds
\* startRecording calls made on one StudioRecorder instance
MaxStarts == 2
\* stopRecording calls made on one StudioRecorder instance
MaxStops == 2
\* fragments (dataavailable events) one encoder emits
MaxChunks == 2
\* fragments one encoder emits in the specification of the fragment list
MaxFragments == 3
\* non-terminal status answers the status endpoint gives one run under Spec
MaxPendingPolls == 1
\* redeem-ticket requests in flight together
MaxRequests == 2
\* INSERT statements on clip_likes in one behaviour
MaxLikeInserts == 4

\* the history of a run keeps the statuses of as many polls as the scripted
\* sequence of the polling scenario has
ScriptedStatuses == << "queued", "processing", "processing", "ready" >>

HistLen == Len(ScriptedStatuses)

\* ------------------------------------------------------ program constants
\* blob.size < 1000 is rejected (daydream.ts:451)
MinBlobSize == 1000
\* const maxAttempts = 300 (daydream.ts:592)
maxAttempts == 300
\* maxRetries: number = 10 (daydream.ts:77)
maxRetries == 10

StartIds == 1..MaxStarts
\* stop invocations: 0 is the one made by the unmount cleanup, c >= 1 the one
\* made by the c-th stopRecording call
StopIds == 0..MaxStops
CallIds == 1..MaxStops

\* sizes of the fragments the encoder hands to ondataavailable (0: empty)
ChunkSizes == {0, 499, 500, 1000}
\* bytes fixWebmDuration adds when it writes the duration field
RepairGrowth == {0, 11}

\* mimeCandidates, in order of preference (daydream.ts:362-368)
mimeCandidates ==
    << "video/webm;codecs=vp9,opus", "video/webm;codecs=vp8,opus",
       "video/webm;codecs=vp9", "video/webm;codecs=vp8", "video/webm" >>

\* what MediaRecorder.isTypeSupported may accept on some browser
SupportedSets ==
    { {}, {"video/webm"}, {"video/webm;codecs=vp8", "video/webm"},
      {"video/webm;codecs=vp9,opus", "video/webm;codecs=vp8", "video/webm"} }

\* the browser of one session: capture (the element has a captureStream
\* function), stream (captureStream() returns a stream), supported (the types
\* MediaRecorder.isTypeSupported accepts)
Browsers ==
    { [capture |-> TRUE, stream |-> TRUE, supported |-> s] : s \in SupportedSets }
    \cup { [capture |-> FALSE, stream |-> FALSE, supported |-> {"video/webm"}],
           [capture |-> TRUE, stream |-> FALSE, supported |-> {"video/webm"}] }

\* the browsers of Spec: one that records, one without a supported type, one
\* whose elements cannot capture, one whose captureStream() returns no stream
SpecBrowsers == { b \in Browsers : b.supported \in {{}, {"video/webm"}} }

GoodBrowser == [capture |-> TRUE, stream |-> TRUE, supported |-> {"video/webm"}]

\* mimeCandidates.find(m => MediaRecorder.isTypeSupported(m)) || ''
RECURSIVE FindFrom_Last(_, _)
FindFrom_Last(i, supported) ==
    IF i > Len(mimeCandidates) THEN ""
    ELSE IF FindFrom_Last(i + 1, supported) # "" THEN FindFrom_Last(i + 1, supported)
    ELSE IF mimeCandidates[i] \in supported THEN mimeCandidates[i]
    ELSE ""

RECURSIVE FindFrom(_, _)
FindFrom(i, supported) ==
    IF i > Len(mimeCandidates) THEN ""
    ELSE IF mimeCandidates[i] \in supported THEN mimeCandidates[i]
    ELSE FindFrom(i + 1, supported)

SelectMimeType_AssumeWebm(supported) == "video/webm"

SelectMimeType(supported) == FindFrom(1, supported)

RECURSIVE SumSeq(_)
SumSeq(s) == IF s = << >> THEN 0 ELSE Head(s) + SumSeq(Tail(s))

\* ------------------------------------------------- VideoRecorder helpers
\* recorder.ondataavailable: keep the fragment when it is not empty
OnDataAvailable_Overwrite(cs, size) == IF size > 0 THEN << size >> ELSE cs

OnDataAvailable_Prepend(cs, size) == IF size > 0 THEN << size >> \o cs ELSE cs

OnDataAvailable(cs, size) == IF size > 0 THEN Append(cs, size) ELSE cs

\* new Blob(this.chunks, ...): the parts in order, size the sum of their sizes
NewBlob(cs) == [parts |-> cs, size |-> SumSeq(cs), fixed |-> FALSE]

NoBlob == [parts |-> << >>, size |-> 0, fixed |-> FALSE]

\* the type given to the blob: this.mimeType || 'video/webm' (daydream.ts:441)
BlobType(m) == IF m # "" THEN m ELSE "video/webm"

\* return { blob, durationMs, mimeType: this.mimeType } (daydream.ts:469);
\* blobType is the type the blob was built with
RecordingResult(b, m) == [blob |-> b, blobType |-> BlobType(m), mimeType |-> m]

\* if (this.chunks.length === 0) throw
IsEmptyRecording_Never(cs) == FALSE

IsEmptyRecording(cs) == Len(cs) = 0

\* if (blob.size < 1000) throw
IsTooSmall_OffByOne(b) == b.size <= MinBlobSize

IsTooSmall(b) == b.size < MinBlobSize

\* the three outcomes of VideoRecorder.stop once the stop wait is over
\* (daydream.ts:433-453): an error, or the blob that goes to the repair step
AfterStopWait(cs) ==
    IF IsEmptyRecording(cs) THEN [err |-> "NoVideoData", blob |-> NoBlob]
    ELSE IF IsTooSmall(NewBlob(cs)) THEN [err |-> "TooSmall", blob |-> NoBlob]
    ELSE [err |-> "", blob |-> NewBlob(cs)]

\* try { blob = await fixWebmDuration(blob, ...) } catch { keep blob }
AfterRepair_Throws(b, ok, growth) ==
    IF ok THEN [err |-> "", blob |-> [b EXCEPT !.size = b.size + growth, !.fixed = TRUE]]
    ELSE [err |-> "RepairFailed", blob |-> NoBlob]

AfterRepair(b, ok, growth) ==
    IF ok THEN [err |-> "", blob |-> [b EXCEPT !.size = b.size + growth, !.fixed = TRUE]]
    ELSE [err |-> "", blob |-> b]

\* ---------------------------------------------------------------- state
VARIABLES
    \* StudioRecorder refs (daydream.ts:671-675)
    recorderRef,          \* 0 (null) or the id of a VideoRecorder
    recordStartTimeRef,   \* TRUE when a timestamp is stored, FALSE when null
    isRecordingRef,
    isProcessingRef,
    mounted,              \* containerRef is attached (the component is mounted)
    browser,              \* what the browser offers: see Browsers
    \* startRecording calls; call c creates VideoRecorder c
    startPc,              \* "none", "pendingOk", "pendingErr", "started", "failed", "refused"
    startErr,             \* error handed to onError by a startRecording call, "" if none
    startCb,              \* callbacks the startRecording call has invoked
    \* VideoRecorder c and its MediaRecorder
    recorder,             \* MediaRecorder.state: "none" (not created), "recording", "inactive"
    chunks,               \* this.chunks: sizes of the kept fragments, in order
    mimeType,             \* this.mimeType
    onstop,               \* stop invocation whose handler is recorder.onstop, -1 if unset
    stopEvt,              \* the encoder's stop event: "none", "queued", "fired"
    emitted,              \* history: every fragment size the encoder emitted, in order
    \* VideoRecorder.stop invocations and the stopRecording call around each
    stopPc,               \* "none","noop","waitStop","rejected","repair","ticket","tus","put",
                          \* "poll","sleep","done"
    stopVr,               \* VideoRecorder the invocation stops, 0 if none
    timer,                \* the 5 s timeout: "none", "armed", "cleared", "fired"
    flush,                \* the 100 ms timer set by onstop: "none", "pending", "done"
    signalled,            \* history: the stop event had fired when the invocation settled
    err,                  \* error the call ended with, "" if none
    blob,                 \* blob built by VideoRecorder.stop (before / after repair)
    preRepair,            \* history: the blob as built at daydream.ts:441
    repaired,             \* history: how fixWebmDuration ended: "none", "ok", "failed"
    cb,                   \* callbacks the stopRecording call has invoked
    up,                   \* uploadToLivepeer locals and history of one run
    microQ,               \* microtask queue: << kind, id >>
    \* createDaydreamStream and updateDaydreamPromptsWithRetry (daydream.ts:45-118)
    create,               \* the createDaydreamStream call: see NoCreate
    update,               \* the background update it starts: see NoUpdate
    whip,                 \* the startWhipPublish call in flight: see NoWhip
    prompts,              \* the updateDaydreamPrompts call: see NoPrompts
    \* the Login page (daydream.ts:847-1129) and the Supabase project behind it
    session,              \* the Supabase session: "none", "anonymous", "authenticated"
    isAnonymous,          \* useState: isAnonymous
    loading,              \* useState: loading
    otpSent,              \* useState: otpSent
    checkPc,              \* checkExistingSession: "pending", "done"
    handler,              \* the event handler in flight: see NoHandler
    usersWrites,          \* history: the upserts sent to the users table
    navigated,            \* history: who has called navigate('/capture')
    users,                \* rows the page has written to the users table
    \* the redeem-ticket edge function and the tickets table (part_002:81-154)
    tickets,              \* tickets table: code -> redeemed
    reqPc,                \* position of a request: "none", "select", "update", "done"
    reqCode,              \* the code of the request body
    response,             \* the response of a request: see NoResponse
    \* the clips and clip_likes tables (part_002:1-70)
    clips,                \* ids of the rows of public.clips
    clip_likes,           \* rows of public.clip_likes per << clip_id, user_id >>
    likes_count,          \* clips.likes_count
    likeInserts,          \* history: number of INSERT statements so far
    lastLike              \* history: the last statement and how it ended

refVars == << recorderRef, recordStartTimeRef, isRecordingRef, isProcessingRef, mounted >>
startVars == << startPc, startErr, startCb >>
vrVars == << recorder, chunks, mimeType, onstop, stopEvt, emitted >>
stopVars == << stopPc, stopVr, timer, flush, signalled, err, blob, preRepair, repaired, cb >>
streamVars == << create, update, whip, prompts >>
loginVars == << session, isAnonymous, loading, otpSent, checkPc, handler, usersWrites, navigated,
               users >>
redeemVars == << tickets, reqPc, reqCode, response >>
likesVars == << clips, clip_likes, likes_count, likeInserts, lastLike >>
\* what no step of StudioRecorder changes: the browser and the other components
envVars == << browser, streamVars, loginVars, redeemVars, likesVars >>
studioVars == << refVars, browser, startVars, vrVars, stopVars, up, microQ >>
vars == << studioVars, streamVars, loginVars, redeemVars, likesVars >>

NoStartCb == [onRecordingStart |-> 0, onError |-> 0]

NoCb == [onRecordingStop |-> 0, onUploadDone |-> 0, onComplete |-> 0, onError |-> 0]

NoTicket == [error |-> FALSE, assetId |-> FALSE, tus |-> FALSE, put |-> FALSE]

\* what uploadToLivepeer returned: nothing yet, or where its assetId and
\* playbackId were taken from (<< "ticket", 0 >>, or << "poll", k >>: the
\* k-th status answer)
NoResult == [assetId |-> "", playbackId |-> << >>]

NoUp ==
    [ ticketReqs |-> 0, ticket |-> NoTicket, tusAttempts |-> 0, tusResult |-> "",
      putAttempts |-> 0, putResult |-> "", uploaded |-> FALSE, polls |-> 0,
      attempts |-> 0, uploadDoneCalled |-> FALSE, status |-> "", playbackId |-> FALSE,
      answers |-> 0, dataOf |-> 0, reason |-> FALSE, errorMsg |-> "", result |-> NoResult, seenProcessing |-> FALSE, hist |-> << >>,
      phase |-> "", progress |-> 0 ]

\* ------------------------------------------- the other components at rest
\* errors a call of updateDaydreamPrompts can throw: what the code reads of
\* it (daydream.ts:92-93).  message: error.message; nested: error.error.error;
\* json: JSON.stringify(error).  "" is a missing property.
ErrorTexts == {"", "Stream not ready yet", "stream is not ready", "Internal error"}

\* a message that is no string (it has no includes method)
NonString == "[object Object]"

JsonTexts == {"{}", "{error: Stream not ready yet}"}

UpdateErrors ==
    [message : ErrorTexts \cup {NonString}, nested : ErrorTexts, json : JsonTexts]

NoError == [message |-> "", nested |-> "", json |-> ""]

\* createDaydreamStream: pc "idle", "creating", "awaiting", "returned",
\* "rejected"; initialParams was passed; result what the promise settled with
NoCreate == [pc |-> "idle", initialParams |-> FALSE, result |-> ""]

\* updateDaydreamPromptsWithRetry: pc "idle", "call" (updateDaydreamPrompts
\* in flight), "sleep" (the delayMs timer), "done"; attempt the loop variable;
\* calls the updateDaydreamPrompts calls made; outcome "", "updated",
\* "defaults" (non-retryable error), "gaveUp" (retries exhausted), "rejected";
\* error the error caught last; logged: the .catch handler at daydream.ts:62
\* ran; succeeded, failed: the calls that returned and that threw so far
NoUpdate ==
    [pc |-> "idle", attempt |-> 0, calls |-> 0, outcome |-> "", error |-> NoError,
     logged |-> FALSE, succeeded |-> 0, failed |-> 0]

\* startWhipPublish (daydream.ts:124-189).  pc: "idle", "createOffer",
\* "setLocal", "gathering" (the race of daydream.ts:152-167 is pending),
\* "posting", "text", "setRemote", "returned", "failed"; ice:
\* pc.iceGatheringState; listener: checkState is attached; timer: the
\* ICE_TIMEOUT timer, "none", "armed", "fired"; posts: offers posted; postedOn:
\* what ended the race, "complete" or "timeout"; response: "ok", "notOk",
\* "rejected"; remote: a remote description is set; runs: calls made so far
NoWhip ==
    [ pc |-> "idle", ice |-> "new", listener |-> FALSE, timer |-> "none", posts |-> 0,
      postedOn |-> "", response |-> "", remote |-> FALSE, runs |-> 0 ]

\* an optional property of a JavaScript object: given, or omitted
Given(v) == [given |-> TRUE, value |-> v]

Omitted(v) == [given |-> FALSE, value |-> v]

\* StreamDiffusionParams (daydream.ts:16-38) with every optional field omitted
NoParams ==
    [ model_id |-> Omitted(""), prompt |-> "", negative_prompt |-> Omitted(""),
      num_inference_steps |-> Omitted(0), seed |-> Omitted(0), t_index_list |-> Omitted(<< >>),
      controlnets |-> Omitted(<< >>), ip_adapter |-> Omitted(""),
      ip_adapter_style_image_url |-> Omitted("") ]

\* body.params of the request (daydream.ts:232-253), before it is built
NoBody ==
    [ model_id |-> "", prompt |-> "", negative_prompt |-> "", num_inference_steps |-> 0,
      seed |-> 0, t_index_list |-> << >>, controlnets |-> << >>, ip_adapter |-> "",
      ip_adapter_style_image_url |-> Omitted("") ]

\* updateDaydreamPrompts (daydream.ts:195-260): pc "idle", "invoking",
\* "returned", "thrown"; params: its argument; body: the params it sent
NoPrompts == [pc |-> "idle", params |-> NoParams, body |-> NoBody]

StreamIdle == create = NoCreate /\ update = NoUpdate /\ whip = NoWhip /\ prompts = NoPrompts

Sessions == {"none", "anonymous", "authenticated"}

\* the handler in flight and the call it awaits: "none", "send.select",
\* "send.updateUser", "send.signInWithOtp", "verify.verifyOtp",
\* "verify.getUser", "verify.upsert", "anon.signIn", "anon.upsert"; anon: the
\* isAnonymous of the render the handler closed over; verified: verifyOtp
\* returned without error in this invocation
NoHandler == [pc |-> "none", anon |-> FALSE, verified |-> FALSE]

\* the Login page as mounted (daydream.ts:848-852), its effect started
LoginFresh ==
    /\ isAnonymous = FALSE
    /\ loading = FALSE
    /\ otpSent = FALSE
    /\ checkPc = "pending"
    /\ handler = NoHandler
    /\ usersWrites = {}
    /\ navigated = {}
    /\ users = {}

LoginIdle == session = "none" /\ LoginFresh

TicketCodes == {"A", "B"}

RequestIds == 1..MaxRequests

NoResponse == [status |-> 0, error |-> "", success |-> FALSE]

\* no request has arrived
RedeemFresh ==
    /\ reqPc = [r \in RequestIds |-> "none"]
    /\ reqCode = [r \in RequestIds |-> ""]
    /\ response = [r \in RequestIds |-> NoResponse]

RedeemIdle == tickets = [c \in TicketCodes |-> FALSE] /\ RedeemFresh

ClipIds == {"clip1", "clip2"}

UserIds == {"u1", "u2"}

\* UPDATE public.clips SET likes_count = (SELECT COUNT(*) ...) WHERE
\* likes_count = 0 (part_002:63-70)
RowsOf(rows, clip) == rows[<< clip, "u1" >>] + rows[<< clip, "u2" >>]

InitialLikesCount(rows, clip, count) == IF count = 0 THEN RowsOf(rows, clip) ELSE count

NoLike == [op |-> "", clip |-> "", user |-> "", result |-> ""]

\* the database once the migration has run: the column added with its
\* default (part_002:5-6), the table created (9-14), the counts initialised
LikesFresh ==
    /\ clips = ClipIds
    /\ clip_likes = [p \in ClipIds \X UserIds |-> 0]
    /\ likes_count = [c \in ClipIds |-> InitialLikesCount(clip_likes, c, 0)]
    /\ likeInserts = 0
    /\ lastLike = NoLike

OutsideIdle == StreamIdle /\ LoginIdle /\ RedeemIdle /\ LikesFresh

\* a StudioRecorder that has just been mounted
StudioFresh ==
    /\ recorderRef = 0
    /\ recordStartTimeRef = FALSE
    /\ isRecordingRef = FALSE
    /\ isProcessingRef = FALSE
    /\ mounted = TRUE
    /\ startPc = [c \in StartIds |-> "none"]
    /\ startErr = [c \in StartIds |-> ""]
    /\ startCb = [c \in StartIds |-> NoStartCb]
    /\ recorder = [v \in StartIds |-> "none"]
    /\ chunks = [v \in StartIds |-> << >>]
    /\ mimeType = [v \in StartIds |-> ""]
    /\ onstop = [v \in StartIds |-> -1]
    /\ stopEvt = [v \in StartIds |-> "none"]
    /\ emitted = [v \in StartIds |-> << >>]
    /\ stopPc = [c \in StopIds |-> "none"]
    /\ stopVr = [c \in StopIds |-> 0]
    /\ timer = [c \in StopIds |-> "none"]
    /\ flush = [c \in StopIds |-> "none"]
    /\ signalled = [c \in StopIds |-> FALSE]
    /\ err = [c \in StopIds |-> ""]
    /\ blob = [c \in StopIds |-> NoBlob]
    /\ preRepair = [c \in StopIds |-> NoBlob]
    /\ repaired = [c \in StopIds |-> "none"]
    /\ cb = [c \in StopIds |-> NoCb]
    /\ up = [c \in CallIds |-> NoUp]
    /\ microQ = << >>

\* the StudioRecorder in the specifications of the other components
StudioIdle == browser = GoodBrowser /\ StudioFresh

Init ==
    /\ browser \in SpecBrowsers
    /\ StudioFresh
    /\ OutsideIdle

\* ------------------------------------------------- StudioRecorder.startRecording
\* the guards at daydream.ts:679-688
StartRefused == isRecordingRef \/ isProcessingRef

\* calls are numbered in the order they are made
IsNextStart(c) == startPc[c] = "none" /\ \A d \in StartIds : d < c => startPc[d] # "none"

\* catch block of startRecording (daydream.ts:724-730)
StartCatch(c, e) ==
    /\ isRecordingRef' = FALSE
    /\ recorderRef' = 0
    /\ recordStartTimeRef' = FALSE
    /\ startPc' = [startPc EXCEPT ![c] = "failed"]
    /\ startErr' = [startErr EXCEPT ![c] = e]
    /\ startCb' = [startCb EXCEPT ![c].onError = @ + 1]

\* startRecording up to its first yield.  element: the container holds a
\* video or canvas element when the call is made.
StartRecording(c, element) ==
    /\ IsNextStart(c)
    /\ IF StartRefused
       THEN /\ startPc' = [startPc EXCEPT ![c] = "refused"]
            /\ UNCHANGED << refVars, startErr, startCb, vrVars, microQ >>
       ELSE IF ~mounted \/ ~element
       THEN /\ StartCatch(c, "NoElement")
            /\ UNCHANGED << isProcessingRef, mounted, vrVars, microQ >>
       ELSE IF ~browser.capture
       THEN /\ StartCatch(c, "CaptureNotSupported")
            /\ UNCHANGED << isProcessingRef, mounted, vrVars, microQ >>
       ELSE IF ~browser.stream
       \* VideoRecorder.start throws before it touches this.mimeType
       THEN /\ startPc' = [startPc EXCEPT ![c] = "pendingErr"]
            /\ startErr' = [startErr EXCEPT ![c] = "NoCaptureStream"]
            /\ microQ' = Append(microQ, << "start", c >>)
            /\ UNCHANGED << refVars, startCb, vrVars >>
       ELSE IF SelectMimeType(browser.supported) = ""
       THEN /\ startPc' = [startPc EXCEPT ![c] = "pendingErr"]
            /\ startErr' = [startErr EXCEPT ![c] = "NoMimeType"]
            /\ microQ' = Append(microQ, << "start", c >>)
            /\ UNCHANGED << refVars, startCb, vrVars >>
       ELSE \* new MediaRecorder(...); this.chunks = []; recorder.start(1000)
            /\ startPc' = [startPc EXCEPT ![c] = "pendingOk"]
            /\ mimeType' = [mimeType EXCEPT ![c] = SelectMimeType(browser.supported)]
            /\ recorder' = [recorder EXCEPT ![c] = "recording"]
            /\ chunks' = [chunks EXCEPT ![c] = << >>]
            /\ microQ' = Append(microQ, << "start", c >>)
            /\ UNCHANGED << refVars, startErr, startCb, onstop, stopEvt, emitted >>
    /\ UNCHANGED << envVars, stopVars, up >>

\* the continuation after `await recorder.start()` (daydream.ts:716-730)
StartContinue(c) ==
    /\ microQ # << >>
    /\ Head(microQ) = << "start", c >>
    /\ microQ' = Tail(microQ)
    /\ IF startPc[c] = "pendingOk"
       THEN /\ recorderRef' = c
            /\ recordStartTimeRef' = TRUE
            /\ isRecordingRef' = TRUE
            /\ startPc' = [startPc EXCEPT ![c] = "started"]
            /\ startCb' = [startCb EXCEPT ![c].onRecordingStart = @ + 1]
            /\ UNCHANGED startErr
       ELSE StartCatch(c, startErr[c])
    /\ UNCHANGED << isProcessingRef, mounted, envVars, vrVars, stopVars, up >>

\* ------------------------------------------------------------ the encoder
\* a dataavailable event: a timeslice fragment while recording, or the data
\* flushed by requestData() / stop() before the stop event
DataAvailable(v, size) ==
    /\ microQ = << >>
    /\ recorder[v] = "recording" \/ stopEvt[v] = "queued"
    /\ emitted' = [emitted EXCEPT ![v] = Append(@, size)]
    /\ chunks' = [chunks EXCEPT ![v] = OnDataAvailable(@, size)]
    /\ UNCHANGED << refVars, envVars, startVars, recorder, mimeType, onstop, stopEvt, stopVars, up, microQ >>

\* ------------------------------------------------------ VideoRecorder.stop
\* how the executor of the stop promise ends (daydream.ts:411-430):
\* requestData() throws InvalidStateError on an inactive MediaRecorder
StopEntry(v) ==
    IF recorder[v] = "none" THEN "NotStarted"
    ELSE IF recorder[v] = "inactive" THEN "InvalidState"
    ELSE "waiting"

\* recorder.onstop = ... (daydream.ts:422): the handler of the latest
\* invocation replaces the one installed before
InstallOnstop(v, c) == c

\* VideoRecorder.stop of recorder v, invocation c, up to its first yield
BeginStop(c, v) ==
    /\ stopVr' = [stopVr EXCEPT ![c] = v]
    /\ IF StopEntry(v) = "waiting"
       THEN /\ timer' = [timer EXCEPT ![c] = "armed"]
            /\ onstop' = [onstop EXCEPT ![v] = InstallOnstop(v, c)]
            /\ recorder' = [recorder EXCEPT ![v] = "inactive"]
            /\ stopEvt' = [stopEvt EXCEPT ![v] = "queued"]
            /\ stopPc' = [stopPc EXCEPT ![c] = "waitStop"]
            /\ UNCHANGED << err, microQ >>
       ELSE IF StopEntry(v) = "InvalidState"
       THEN /\ timer' = [timer EXCEPT ![c] = "armed"]
            /\ onstop' = [onstop EXCEPT ![v] = InstallOnstop(v, c)]
            /\ err' = [err EXCEPT ![c] = "InvalidState"]
            \* the unmount cleanup only logs the rejection
            /\ stopPc' = [stopPc EXCEPT ![c] = IF c = 0 THEN "done" ELSE "rejected"]
            /\ microQ' = IF c = 0 THEN microQ ELSE Append(microQ, << "stop", c >>)
            /\ UNCHANGED << recorder, stopEvt >>
       ELSE /\ err' = [err EXCEPT ![c] = "NotStarted"]
            /\ stopPc' = [stopPc EXCEPT ![c] = IF c = 0 THEN "done" ELSE "rejected"]
            /\ microQ' = IF c = 0 THEN microQ ELSE Append(microQ, << "stop", c >>)
            /\ UNCHANGED << timer, onstop, recorder, stopEvt >>

\* the guard at daydream.ts:734
StopGuardPasses == recorderRef # 0 /\ recordStartTimeRef

IsNextStop(c) == stopPc[c] = "none" /\ \A d \in CallIds : d < c => stopPc[d] # "none"

\* stopRecording up to its first yield (daydream.ts:733-748)
StopRecording(c) ==
    /\ IsNextStop(c)
    /\ IF ~StopGuardPasses
       THEN /\ stopPc' = [stopPc EXCEPT ![c] = "noop"]
            /\ UNCHANGED << refVars, vrVars, stopVr, timer, err, microQ >>
       ELSE /\ isRecordingRef' = FALSE
            /\ isProcessingRef' = TRUE
            /\ BeginStop(c, recorderRef)
            /\ UNCHANGED << recorderRef, recordStartTimeRef, mounted, chunks, mimeType, emitted >>
    /\ UNCHANGED << envVars, startVars, flush, signalled, blob, preRepair, repaired, cb, up >>

\* catch and finally of stopRecording (daydream.ts:790-795)
StopCatch_Swallow(c, e) ==
    /\ stopPc' = [stopPc EXCEPT ![c] = "done"]
    /\ err' = [err EXCEPT ![c] = e]
    /\ cb' = cb
    /\ isProcessingRef' = FALSE

StopCatch(c, e) ==
    /\ stopPc' = [stopPc EXCEPT ![c] = "done"]
    /\ err' = [err EXCEPT ![c] = e]
    /\ cb' = [cb EXCEPT ![c].onError = @ + 1]
    /\ isProcessingRef' = FALSE

\* a rejection of the unmount cleanup's stop() is logged (daydream.ts:803)
CleanupCatch(e) ==
    /\ stopPc' = [stopPc EXCEPT ![0] = "done"]
    /\ err' = [err EXCEPT ![0] = e]
    /\ UNCHANGED << cb, isProcessingRef >>

Catch(c, e) == IF c = 0 THEN CleanupCatch(e) ELSE StopCatch(c, e)

\* the continuation of a stopRecording call whose stop() was rejected at once
StopContinue(c) ==
    /\ microQ # << >>
    /\ Head(microQ) = << "stop", c >>
    /\ microQ' = Tail(microQ)
    /\ StopCatch(c, err[c])
    /\ UNCHANGED << recorderRef, recordStartTimeRef, isRecordingRef, mounted, envVars, startVars,
                    vrVars, stopVr, timer, flush, signalled, blob, preRepair, repaired, up >>

\* the encoder fires its stop event: recorder.onstop runs (daydream.ts:422-426)
EncoderStopEvent(v) ==
    /\ microQ = << >>
    /\ stopEvt[v] = "queued"
    /\ stopEvt' = [stopEvt EXCEPT ![v] = "fired"]
    /\ timer' = [timer EXCEPT ![onstop[v]] = IF @ = "armed" THEN "cleared" ELSE @]
    /\ flush' = [flush EXCEPT ![onstop[v]] = "pending"]
    /\ UNCHANGED << refVars, envVars, startVars, recorder, chunks, mimeType, onstop, emitted,
                    stopPc, stopVr, signalled, err, blob, preRepair, repaired, cb, up, microQ >>

\* the 100 ms timer fires: resolve(), then daydream.ts:433-453.  (On a promise
\* that is settled already resolve() does nothing: that firing is left out.)
FlushTimer(c) ==
    /\ microQ = << >>
    /\ flush[c] = "pending"
    /\ stopPc[c] = "waitStop"
    /\ flush' = [flush EXCEPT ![c] = "done"]
    /\ signalled' = [signalled EXCEPT ![c] = TRUE]
    /\ IF AfterStopWait(chunks[stopVr[c]]).err # ""
       THEN /\ Catch(c, AfterStopWait(chunks[stopVr[c]]).err)
            /\ UNCHANGED << blob, preRepair >>
       ELSE /\ stopPc' = [stopPc EXCEPT ![c] = "repair"]
            /\ blob' = [blob EXCEPT ![c] = AfterStopWait(chunks[stopVr[c]]).blob]
            /\ preRepair' = [preRepair EXCEPT ![c] = AfterStopWait(chunks[stopVr[c]]).blob]
            /\ UNCHANGED << err, cb, isProcessingRef >>
    /\ UNCHANGED << recorderRef, recordStartTimeRef, isRecordingRef, mounted, envVars, startVars,
                    vrVars, stopVr, timer, repaired, up, microQ >>

\* the 5 s timer fires: reject(new Error('Recording stop timed out')).  (On a
\* promise that is settled already reject() does nothing: that firing is left out.)
StopTimeout(c) ==
    /\ microQ = << >>
    /\ timer[c] = "armed"
    /\ stopPc[c] = "waitStop"
    /\ timer' = [timer EXCEPT ![c] = "fired"]
    /\ signalled' = [signalled EXCEPT ![c] = (stopEvt[stopVr[c]] = "fired")]
    /\ Catch(c, "StopTimedOut")
    /\ UNCHANGED << recorderRef, recordStartTimeRef, isRecordingRef, mounted, envVars, startVars,
                    vrVars, stopVr, flush, blob, preRepair, repaired, up, microQ >>

\* stopRecording reports the phase 'uploading' (daydream.ts:763), then
\* uploadToLivepeer up to its first yield: the ticket request is sent
BeginUpload(u) == [u EXCEPT !.ticketReqs = @ + 1, !.phase = "uploading"]

\* fixWebmDuration settles; VideoRecorder.stop returns (daydream.ts:457-469)
\* and stopRecording goes on to the upload (daydream.ts:749-766)
RepairDone(c, ok, growth) ==
    /\ microQ = << >>
    /\ stopPc[c] = "repair"
    /\ repaired' = [repaired EXCEPT ![c] = IF ok THEN "ok" ELSE "failed"]
    /\ IF AfterRepair(blob[c], ok, growth).err # ""
       THEN /\ Catch(c, AfterRepair(blob[c], ok, growth).err)
            /\ UNCHANGED << blob, recorderRef, recordStartTimeRef, up >>
       ELSE /\ blob' = [blob EXCEPT ![c] = AfterRepair(blob[c], ok, growth).blob]
            /\ UNCHANGED << err, isProcessingRef >>
            /\ IF c = 0
               THEN /\ stopPc' = [stopPc EXCEPT ![c] = "done"]
                    /\ UNCHANGED << cb, recorderRef, recordStartTimeRef, up >>
               ELSE /\ recorderRef' = 0
                    /\ recordStartTimeRef' = FALSE
                    /\ cb' = [cb EXCEPT ![c].onRecordingStop = @ + 1]
                    /\ up' = [up EXCEPT ![c] = BeginUpload(@)]
                    /\ stopPc' = [stopPc EXCEPT ![c] = "ticket"]
    /\ UNCHANGED << isRecordingRef, mounted, envVars, startVars, vrVars, stopVr, timer, flush,
                    signalled, preRepair, microQ >>

\* the cleanup of the unmount effect (daydream.ts:799-810); React detaches
\* containerRef with it
Unmount ==
    /\ mounted
    /\ mounted' = FALSE
    /\ IF recorderRef # 0
       THEN BeginStop(0, recorderRef)
       ELSE UNCHANGED << stopVr, timer, onstop, recorder, stopEvt, stopPc, err, microQ >>
    /\ recorderRef' = 0
    /\ isRecordingRef' = FALSE
    /\ isProcessingRef' = FALSE
    /\ recordStartTimeRef' = FALSE
    /\ UNCHANGED << envVars, startVars, chunks, mimeType, emitted, flush, signalled, blob,
                    preRepair, repaired, cb, up >>

\* -------------------------------------------------------- uploadToLivepeer
\* answers of supabase.functions.invoke('studio-request-upload'): an error, a
\* body without assetId, or a ticket offering a tusEndpoint and / or an uploadUrl
TicketResponses ==
    { [error |-> TRUE, assetId |-> FALSE, tus |-> FALSE, put |-> FALSE],
      [error |-> FALSE, assetId |-> FALSE, tus |-> FALSE, put |-> FALSE] }
    \cup { [error |-> FALSE, assetId |-> TRUE, tus |-> t, put |-> p] : t, p \in BOOLEAN }

\* answers of supabase.functions.invoke('studio-asset-status'); reason: the
\* body carries error.message
Statuses == {"queued", "processing", "ready", "failed", "error"}
PollResponses ==
    { [error |-> TRUE, status |-> "", playbackId |-> FALSE, reason |-> FALSE] }
    \cup { [error |-> FALSE, status |-> st, playbackId |-> FALSE, reason |-> FALSE] :
             st \in Statuses }
    \cup { [error |-> FALSE, status |-> "ready", playbackId |-> TRUE, reason |-> FALSE] }
    \cup { [error |-> FALSE, status |-> st, playbackId |-> FALSE, reason |-> TRUE] :
             st \in {"failed", "error"} }

\* the answer ends the polling: an error, 'ready', 'failed' or 'error'
IsTerminal(resp) == resp.error \/ resp.status \in {"ready", "failed", "error"}

\* daydream.ts:496-504
TicketFailure_IgnoresMissingId(resp) == IF resp.error THEN "RequestUploadFailed" ELSE ""

TicketFailure(resp) ==
    IF resp.error THEN "RequestUploadFailed"
    ELSE IF ~resp.assetId THEN "NoAssetId"
    ELSE ""

\* daydream.ts:511-588: the step after the ticket
\* ("tus", "put", or "fail": throw new Error('Upload failed'))
FirstUploadStep(ticket) ==
    IF ticket.tus THEN "tus" ELSE IF ticket.put THEN "put" ELSE "fail"

\* the step after the TUS upload settled: if (!uploaded && uploadData?.uploadUrl)
AfterTus_NoFallback(ok, ticket) == IF ok THEN "poll" ELSE "fail"

AfterTus_PollAnyway(ok, ticket) == "poll"

AfterTus(ok, ticket) ==
    IF ok THEN "poll" ELSE IF ticket.put THEN "put" ELSE "fail"

\* if (!uploadDoneCalled && status === 'processing')
FiresUploadDone_EveryTime(called, status) == status = "processing"

FiresUploadDone(called, status) == ~called /\ status = "processing"

\* the first status poll is sent (daydream.ts:602-603 with attempts = 0)
BeginPolling(u) == [u EXCEPT !.uploaded = TRUE, !.polls = @ + 1]

\* an awaited network call of the run has settled (history)
Answered(u) == [u EXCEPT !.answers = @ + 1]

\* a step of the uploader that sends a request: "tus", "put" or "poll"
EnterStep_Parallel(u, step) ==
    IF step = "tus" THEN [u EXCEPT !.tusAttempts = @ + 1, !.putAttempts = @ + 1]
    ELSE IF step = "put" THEN [u EXCEPT !.putAttempts = @ + 1]
    ELSE IF step = "poll" THEN BeginPolling(u)
    ELSE u

EnterStep(u, step) ==
    IF step = "tus" THEN [u EXCEPT !.tusAttempts = @ + 1]
    ELSE IF step = "put" THEN [u EXCEPT !.putAttempts = @ + 1]
    ELSE IF step = "poll" THEN BeginPolling(u)
    ELSE u

uploadFrame ==
    << recorderRef, recordStartTimeRef, isRecordingRef, mounted, envVars, startVars, vrVars,
       stopVr, timer, flush, signalled, blob, preRepair, repaired, microQ >>

\* the ticket request settles (daydream.ts:491-521)
TicketResponse(c, resp) ==
    /\ microQ = << >>
    /\ stopPc[c] = "ticket"
    /\ IF TicketFailure(resp) # ""
       THEN /\ StopCatch(c, TicketFailure(resp))
            /\ up' = [up EXCEPT ![c] = Answered([@ EXCEPT !.ticket = resp])]
       ELSE IF FirstUploadStep(resp) = "fail"
       THEN /\ StopCatch(c, "UploadFailed")
            /\ up' = [up EXCEPT ![c] = Answered([@ EXCEPT !.ticket = resp])]
       ELSE /\ stopPc' = [stopPc EXCEPT ![c] = FirstUploadStep(resp)]
            /\ up' = [up EXCEPT ![c] = EnterStep(Answered([@ EXCEPT !.ticket = resp]), FirstUploadStep(resp))]
            /\ UNCHANGED << err, cb, isProcessingRef >>
    /\ UNCHANGED uploadFrame

\* the TUS upload settles: onSuccess or onError (daydream.ts:541-557)
TusDone(c, ok) ==
    /\ microQ = << >>
    /\ stopPc[c] = "tus"
    /\ IF AfterTus(ok, up[c].ticket) = "fail"
       THEN /\ StopCatch(c, "UploadFailed")
            /\ up' = [up EXCEPT ![c] = Answered([@ EXCEPT !.tusResult = "failed"])]
       ELSE /\ stopPc' = [stopPc EXCEPT ![c] = AfterTus(ok, up[c].ticket)]
            /\ up' = [up EXCEPT ![c] =
                        EnterStep(Answered([@ EXCEPT !.tusResult = IF ok THEN "ok" ELSE "failed"]),
                                  AfterTus(ok, up[c].ticket))]
            /\ UNCHANGED << err, cb, isProcessingRef >>
    /\ UNCHANGED uploadFrame

\* the PUT settles: an ok response, a response that is not ok, or a rejected
\* fetch (daydream.ts:569-585)
PutDone(c, result) ==
    /\ microQ = << >>
    /\ stopPc[c] = "put"
    /\ IF result = "ok"
       THEN /\ stopPc' = [stopPc EXCEPT ![c] = "poll"]
            /\ up' = [up EXCEPT ![c] = BeginPolling(Answered([@ EXCEPT !.putResult = result]))]
            /\ UNCHANGED << err, cb, isProcessingRef >>
       ELSE /\ StopCatch(c, IF result = "notOk" THEN "PutFailed" ELSE "FetchRejected")
            /\ up' = [up EXCEPT ![c] = Answered([@ EXCEPT !.putResult = result])]
    /\ UNCHANGED uploadFrame

\* assetData?.error?.message || 'Unknown processing error' (daydream.ts:640)
ProcessingErrorMsg_Generic(resp) == "Unknown processing error"

ProcessingErrorMsg(resp) ==
    IF resp.reason THEN "error.message" ELSE "Unknown processing error"

\* uploadToLivepeer locals after the answer of one status poll
\* (daydream.ts:612-625, 645)
AfterPoll(u, resp) ==
    [ u EXCEPT
        \* assetData = data: the answer of this poll replaces the one before
        !.status = resp.status,
        !.playbackId = resp.playbackId,
        !.answers = @ + 1,
        !.dataOf = u.polls,
        !.reason = resp.reason,
        !.errorMsg = IF resp.status \in {"failed", "error"} THEN ProcessingErrorMsg(resp)
                     ELSE @,
        !.uploadDoneCalled = @ \/ FiresUploadDone(u.uploadDoneCalled, resp.status),
        \* history: some poll of the run was answered 'processing'; the
        \* statuses of the first HistLen polls
        !.seenProcessing = @ \/ resp.status = "processing",
        !.hist = IF Len(@) < HistLen THEN Append(@, resp.status) ELSE @,
        !.attempts = IF IsTerminal(resp) THEN @ ELSE @ + 1 ]

\* how one status poll ends the iteration (daydream.ts:607-610, 634-657):
\* an error thrown, "complete" (return), or "sleep" (attempts++, wait 1 s)
PollOutcome_RetryOnError(resp) ==
    IF resp.error THEN "sleep"
    ELSE IF resp.status = "ready" THEN (IF resp.playbackId THEN "complete" ELSE "NoPlaybackId")
    ELSE IF resp.status \in {"failed", "error"} THEN "ProcessingFailed"
    ELSE "sleep"

PollOutcome_ReadyWithoutId(resp) ==
    IF resp.error THEN "StatusCheckFailed"
    ELSE IF resp.status = "ready" THEN "complete"
    ELSE IF resp.status \in {"failed", "error"} THEN "ProcessingFailed"
    ELSE "sleep"

PollOutcome(resp) ==
    IF resp.error THEN "StatusCheckFailed"
    ELSE IF resp.status = "ready" THEN (IF resp.playbackId THEN "complete" ELSE "NoPlaybackId")
    ELSE IF resp.status \in {"failed", "error"} THEN "ProcessingFailed"
    ELSE "sleep"

\* the value returned at daydream.ts:661-666: uploadData.assetId and
\* assetData.playbackId
ReturnValue_FromTicket(u) == [assetId |-> "ticket", playbackId |-> << "ticket", 0 >>]

ReturnValue(u) == [assetId |-> "ticket", playbackId |-> << "poll", u.dataOf >>]

\* progress values are held in units of 1 / maxAttempts, so that
\* attempts / maxAttempts is the integer attempts
Percent(n) == n * maxAttempts

\* answers of the status endpoint for assetData.progress: 0 is a missing (or
\* zero) value, then one half, and 150
AssetProgress == {0, Percent(1) \div 2, Percent(150)}

\* Math.min(assetData?.progress || (attempts / maxAttempts), 99)
ReportedProgress_Uncapped(progress, attempts) ==
    IF progress # 0 THEN progress ELSE attempts

ReportedProgress(progress, attempts) ==
    LET value == IF progress # 0 THEN progress ELSE attempts
    IN IF value < Percent(99) THEN value ELSE Percent(99)

\* the onProgress events of one status poll: 'processing' with the capped
\* progress (daydream.ts:627-632), then 'complete' with 100 twice, from
\* uploadToLivepeer and from stopRecording (daydream.ts:659, 781)
AfterProgress(u, resp, progress) ==
    [ AfterPoll(u, resp) EXCEPT
        !.phase = IF PollOutcome(resp) = "complete" THEN "complete" ELSE "processing",
        !.progress = IF PollOutcome(resp) = "complete" THEN Percent(100)
                     ELSE ReportedProgress(progress, u.attempts) ]

\* one status poll settles (daydream.ts:603-646, 649-666), its answer
\* carrying the given progress; when it ends the run, stopRecording goes on
\* (daydream.ts:779-795)
PollAnswer(c, resp, progress) ==
    /\ microQ = << >>
    /\ stopPc[c] = "poll"
    /\ up' = IF resp.error THEN [up EXCEPT ![c] = Answered(@)]
             ELSE IF PollOutcome(resp) = "complete"
             THEN [up EXCEPT ![c] =
                     [AfterProgress(@, resp, progress) EXCEPT
                        !.result = ReturnValue(AfterPoll(up[c], resp))]]
             ELSE [up EXCEPT ![c] = AfterProgress(@, resp, progress)]
    /\ stopPc' = [stopPc EXCEPT ![c] = IF PollOutcome(resp) = "sleep" THEN "sleep" ELSE "done"]
    /\ err' = [err EXCEPT ![c] =
                 IF PollOutcome(resp) \in {"sleep", "complete"} THEN @ ELSE PollOutcome(resp)]
    /\ cb' = [cb EXCEPT
                ![c].onUploadDone =
                    IF ~resp.error /\ FiresUploadDone(up[c].uploadDoneCalled, resp.status)
                    THEN @ + 1 ELSE @,
                ![c].onComplete = IF PollOutcome(resp) = "complete" THEN @ + 1 ELSE @,
                ![c].onError =
                    IF PollOutcome(resp) \in {"sleep", "complete"} THEN @ ELSE @ + 1]
    /\ isProcessingRef' = IF PollOutcome(resp) = "sleep" THEN isProcessingRef ELSE FALSE
    /\ UNCHANGED uploadFrame

\* a status poll whose answer carries no progress
PollResponse(c, resp) == PollAnswer(c, resp, 0)

\* while (attempts < maxAttempts)
LoopGoesOn_OneMore(attempts) == attempts <= maxAttempts

LoopGoesOn(attempts) == attempts < maxAttempts

\* the 1 s wait is over: the next poll, or the loop ends (daydream.ts:602, 646-652)
PollSleepDone(c) ==
    /\ microQ = << >>
    /\ stopPc[c] = "sleep"
    /\ IF LoopGoesOn(up[c].attempts)
       THEN /\ stopPc' = [stopPc EXCEPT ![c] = "poll"]
            /\ up' = [up EXCEPT ![c].polls = @ + 1]
            /\ UNCHANGED << err, cb, isProcessingRef >>
       ELSE /\ StopCatch(c, "ProcessingTimedOut")
            /\ UNCHANGED up
    /\ UNCHANGED uploadFrame

RECURSIVE TotalEmitted(_)
TotalEmitted(v) == IF v = 0 THEN 0 ELSE Len(emitted[v]) + TotalEmitted(v - 1)

\* -------------------------------------------------------- specifications
\* Spec: one StudioRecorder instance, its owner calling startRecording,
\* stopRecording and unmount in any order and at any point.  The environment
\* is narrow where the calls do not depend on it: fragments of one size, a
\* ticket that offers the resumable endpoint only, three status answers.
SpecTicketResponses ==
    { r \in TicketResponses : r.error \/ (r.assetId /\ r.tus /\ ~r.put) }

SpecPollResponses ==
    { r \in PollResponses :
        ~r.error /\ (r.status \in {"processing", "failed"} \/ r.playbackId) }

Next ==
    \/ \E c \in StartIds, element \in BOOLEAN : StartRecording(c, element)
    \/ \E c \in StartIds : StartContinue(c)
    \/ \E v \in StartIds :
          TotalEmitted(MaxStarts) < MaxChunks /\ DataAvailable(v, MinBlobSize)
    \/ \E c \in CallIds : StopRecording(c)
    \/ \E c \in CallIds : StopContinue(c)
    \/ \E v \in StartIds : EncoderStopEvent(v)
    \/ \E c \in StopIds : FlushTimer(c)
    \/ \E c \in StopIds : StopTimeout(c)
    \/ \E c \in StopIds, ok \in BOOLEAN : RepairDone(c, ok, 0)
    \/ Unmount
    \/ \E c \in CallIds, resp \in SpecTicketResponses : TicketResponse(c, resp)
    \/ \E c \in CallIds, ok \in BOOLEAN : TusDone(c, ok)
    \/ \E c \in CallIds, resp \in SpecPollResponses :
          /\ IsTerminal(resp) \/ up[c].attempts < MaxPendingPolls
          /\ PollResponse(c, resp)
    \/ \E c \in CallIds : PollSleepDone(c)

Spec == Init /\ [][Next]_vars

\* SpecStop: one recording in progress (the state a successful startRecording
\* leaves), then stopRecording calls and the unmount, with fragments of every
\* size in ChunkSizes; the uploader is left at its ticket request.
InitStop ==
    /\ recorderRef = 1
    /\ recordStartTimeRef = TRUE
    /\ isRecordingRef = TRUE
    /\ isProcessingRef = FALSE
    /\ mounted = TRUE
    /\ browser = GoodBrowser
    /\ startPc = [c \in StartIds |-> IF c = 1 THEN "started" ELSE "none"]
    /\ startErr = [c \in StartIds |-> ""]
    /\ startCb = [c \in StartIds |->
                    IF c = 1 THEN [NoStartCb EXCEPT !.onRecordingStart = 1] ELSE NoStartCb]
    /\ recorder = [v \in StartIds |-> IF v = 1 THEN "recording" ELSE "none"]
    /\ chunks = [v \in StartIds |-> << >>]
    /\ mimeType = [v \in StartIds |-> IF v = 1 THEN "video/webm" ELSE ""]
    /\ onstop = [v \in StartIds |-> -1]
    /\ stopEvt = [v \in StartIds |-> "none"]
    /\ emitted = [v \in StartIds |-> << >>]
    /\ stopPc = [c \in StopIds |-> "none"]
    /\ stopVr = [c \in StopIds |-> 0]
    /\ timer = [c \in StopIds |-> "none"]
    /\ flush = [c \in StopIds |-> "none"]
    /\ signalled = [c \in StopIds |-> FALSE]
    /\ err = [c \in StopIds |-> ""]
    /\ blob = [c \in StopIds |-> NoBlob]
    /\ preRepair = [c \in StopIds |-> NoBlob]
    /\ repaired = [c \in StopIds |-> "none"]
    /\ cb = [c \in StopIds |-> NoCb]
    /\ up = [c \in CallIds |-> NoUp]
    /\ microQ = << >>
    /\ OutsideIdle

NextStop ==
    \/ \E size \in ChunkSizes : Len(emitted[1]) < MaxChunks /\ DataAvailable(1, size)
    \/ \E c \in CallIds : StopRecording(c)
    \/ \E c \in CallIds : StopContinue(c)
    \/ EncoderStopEvent(1)
    \/ \E c \in StopIds : FlushTimer(c)
    \/ \E c \in StopIds : StopTimeout(c)
    \/ \E c \in StopIds, ok \in BOOLEAN, growth \in RepairGrowth : RepairDone(c, ok, growth)
    \/ Unmount

SpecStop == InitStop /\ [][NextStop]_vars

\* SpecUpload: one run of uploadToLivepeer, from its ticket request on (the
\* state in which stopRecording calls it), with every answer of the ticket,
\* upload and status endpoints at every step.
InitUpload ==
    /\ recorderRef = 0
    /\ recordStartTimeRef = FALSE
    /\ isRecordingRef = FALSE
    /\ isProcessingRef = TRUE
    /\ mounted = TRUE
    /\ browser = GoodBrowser
    /\ startPc = [c \in StartIds |-> IF c = 1 THEN "started" ELSE "none"]
    /\ startErr = [c \in StartIds |-> ""]
    /\ startCb = [c \in StartIds |->
                    IF c = 1 THEN [NoStartCb EXCEPT !.onRecordingStart = 1] ELSE NoStartCb]
    /\ recorder = [v \in StartIds |-> IF v = 1 THEN "inactive" ELSE "none"]
    /\ chunks = [v \in StartIds |-> IF v = 1 THEN << MinBlobSize >> ELSE << >>]
    /\ mimeType = [v \in StartIds |-> IF v = 1 THEN "video/webm" ELSE ""]
    /\ onstop = [v \in StartIds |-> IF v = 1 THEN 1 ELSE -1]
    /\ stopEvt = [v \in StartIds |-> IF v = 1 THEN "fired" ELSE "none"]
    /\ emitted = [v \in StartIds |-> IF v = 1 THEN << MinBlobSize >> ELSE << >>]
    /\ stopPc = [c \in StopIds |-> IF c = 1 THEN "ticket" ELSE "none"]
    /\ stopVr = [c \in StopIds |-> IF c = 1 THEN 1 ELSE 0]
    /\ timer = [c \in StopIds |-> IF c = 1 THEN "cleared" ELSE "none"]
    /\ flush = [c \in StopIds |-> IF c = 1 THEN "done" ELSE "none"]
    /\ signalled = [c \in StopIds |-> c = 1]
    /\ err = [c \in StopIds |-> ""]
    /\ blob = [c \in StopIds |->
                 IF c = 1 THEN AfterRepair(NewBlob(<< MinBlobSize >>), TRUE, 0).blob ELSE NoBlob]
    /\ preRepair = [c \in StopIds |-> IF c = 1 THEN NewBlob(<< MinBlobSize >>) ELSE NoBlob]
    /\ repaired = [c \in StopIds |-> IF c = 1 THEN "ok" ELSE "none"]
    /\ cb = [c \in StopIds |-> IF c = 1 THEN [NoCb EXCEPT !.onRecordingStop = 1] ELSE NoCb]
    /\ up = [c \in CallIds |-> IF c = 1 THEN BeginUpload(NoUp) ELSE NoUp]
    /\ microQ = << >>
    /\ OutsideIdle

NextUpload ==
    \/ \E resp \in TicketResponses : TicketResponse(1, resp)
    \/ \E ok \in BOOLEAN : TusDone(1, ok)
    \/ \E result \in {"ok", "notOk", "rejected"} : PutDone(1, result)
    \/ \E resp \in PollResponses : PollResponse(1, resp)
    \/ PollSleepDone(1)

SpecUpload == InitUpload /\ [][NextUpload]_vars

\* SpecPipeline: one recording from startRecording to the end of its upload,
\* with every kind of failure on the way: browsers that cannot record, empty
\* and undersized fragments, stop timeouts, repeated stopRecording calls, the
\* unmount, and every answer of the ticket, upload and status endpoints.  The
\* Fragments arrive until the recording has reached MinBlobSize; the ticket
\* offers both upload endpoints or none; the status endpoint answers
\* 'processing' as its only non-terminal status.
PipelineChunkSizes == {499, MinBlobSize}

PipelineTicketResponses == { r \in TicketResponses : r.tus = r.put }

PipelinePollResponses == { r \in PollResponses : r.status # "queued" /\ ~r.reason }

NextPipeline ==
    \/ \E element \in BOOLEAN : StartRecording(1, element)
    \/ StartContinue(1)
    \/ \E size \in PipelineChunkSizes :
          /\ Len(emitted[1]) < MaxChunks
          /\ SumSeq(emitted[1]) < MinBlobSize
          /\ DataAvailable(1, size)
    \/ \E c \in CallIds : StopRecording(c)
    \/ \E c \in CallIds : StopContinue(c)
    \/ EncoderStopEvent(1)
    \/ \E c \in StopIds : FlushTimer(c)
    \/ \E c \in StopIds : StopTimeout(c)
    \/ \E c \in StopIds, ok \in BOOLEAN : RepairDone(c, ok, 0)
    \/ Unmount
    \/ \E c \in CallIds, resp \in PipelineTicketResponses : TicketResponse(c, resp)
    \/ \E c \in CallIds, ok \in BOOLEAN : TusDone(c, ok)
    \/ \E c \in CallIds, result \in {"ok", "notOk", "rejected"} : PutDone(c, result)
    \/ \E c \in CallIds, resp \in PipelinePollResponses : PollResponse(c, resp)
    \/ \E c \in CallIds : PollSleepDone(c)

SpecPipeline == Init /\ [][NextPipeline]_vars

\* ------------------------------------------------------------- properties
ActiveEncoders == {v \in StartIds : recorder[v] = "recording"}

\* C1 (checked under Spec): in every reachable state at most one encoder is
\* active, i.e. started (MediaRecorder.start) and not yet stopped.
C1_AtMostOneActiveEncoder == Cardinality(ActiveEncoders) <= 1

\* no stopRecording call and no unmount has been made so far
NoStopYet == mounted /\ \A c \in CallIds : stopPc[c] = "none"

\* C2 (checked under Spec): a startRecording call made after a call that
\* started an encoder, with no stop in between, leaves exactly one active
\* encoder, is refused, and the refusal is reported to the caller.
C2_SecondStartRejected ==
    \A c1, c2 \in StartIds :
        ( /\ c1 < c2
          /\ NoStopYet
          /\ startPc[c1] \in {"pendingOk", "started"}
          /\ startPc[c2] # "none" )
        => /\ Cardinality(ActiveEncoders) = 1
           /\ startPc[c2] = "refused"
           /\ startErr[c2] # ""

\* no non-empty fragment has been emitted by encoder v
NoFragments(v) == \A i \in 1..Len(emitted[v]) : emitted[v][i] = 0

\* invocation c of VideoRecorder.stop has settled
StopEnded(c) == stopVr[c] # 0 /\ stopPc[c] \notin {"none", "noop", "waitStop", "repair"}

\* no ticket request, upload or status poll was issued for invocation c
NothingSent(c) == c = 0 \/ up[c] = NoUp

\* C3 as stated (checked under SpecStop): with zero non-empty fragments,
\* VideoRecorder.stop fails with the empty-recording error, produces no
\* artifact, and nothing is sent for the recording.
C3_EmptyAlwaysEmptyError ==
    \A c \in StopIds :
        StopEnded(c) /\ NoFragments(stopVr[c])
        => err[c] = "NoVideoData" /\ blob[c] = NoBlob /\ NothingSent(c)

\* C3 as amended (checked under SpecStop): with zero non-empty fragments,
\* VideoRecorder.stop fails, produces no artifact and nothing is sent for the
\* recording; the error is the empty-recording error when the stop wait
\* completed, the stop-timeout error when the 5 s timer ended the wait, and
\* the encoder's InvalidStateError when the recorder was stopped already.
C3_EmptyRecordingFails ==
    \A c \in StopIds :
        StopEnded(c) /\ NoFragments(stopVr[c])
        => /\ err[c] = ( IF flush[c] = "done" THEN "NoVideoData"
                         ELSE IF timer[c] = "fired" THEN "StopTimedOut"
                         ELSE "InvalidState" )
           /\ blob[c] = NoBlob
           /\ preRepair[c] = NoBlob
           /\ NothingSent(c)
           /\ (c # 0 /\ stopPc[c] = "done" => cb[c].onError = 1 /\ cb[c].onComplete = 0)

\* an empty fragment was emitted and ignored, the stop wait completed, and the
\* stopRecording call ended with the empty-recording error
C3_Witness ==
    \E c \in CallIds :
        /\ stopPc[c] = "done"
        /\ err[c] = "NoVideoData"
        /\ emitted[stopVr[c]] = << 0 >>
        /\ up[c] = NoUp

\* C4 (checked under SpecStop): when the stop wait has completed with at least
\* one non-empty fragment, a concatenation of fewer than 1000 bytes makes
\* VideoRecorder.stop fail with the undersized-recording error and no artifact,
\* and one of 1000 bytes or more passes the size check.
C4_UndersizedRejected ==
    \A c \in StopIds :
        flush[c] = "done" /\ ~NoFragments(stopVr[c])
        => IF SumSeq(emitted[stopVr[c]]) < 1000
           THEN /\ err[c] = "TooSmall"
                /\ stopPc[c] = "done"
                /\ blob[c] = NoBlob
                /\ NothingSent(c)
           ELSE /\ err[c] # "TooSmall"
                /\ preRepair[c] # NoBlob

\* 999 bytes in two fragments are rejected
C4_Witness ==
    \E c \in StopIds :
        /\ flush[c] = "done"
        /\ emitted[stopVr[c]] = << 499, 500 >>
        /\ err[c] = "TooSmall"

\* C5 (checked under SpecStop): when the fragments emitted between start and
\* stop total 1000 bytes or more, the artifact VideoRecorder.stop builds before
\* the repair has the sum of their sizes as its size.
C5_ArtifactSizeIsSum ==
    \A c \in StopIds :
        flush[c] = "done" /\ SumSeq(emitted[stopVr[c]]) >= 1000
        => preRepair[c].size = SumSeq(emitted[stopVr[c]])

\* two fragments of different sizes, 1500 bytes together
C5_Witness ==
    \E c \in StopIds :
        /\ flush[c] = "done"
        /\ emitted[stopVr[c]] = << 500, 1000 >>
        /\ preRepair[c].size = 1500

\* C6 (checked under SpecStop): VideoRecorder.stop always settles (while it
\* waits, its timer or its flush is pending); it fails with the stop-timeout
\* error when the timer fires without the encoder's stop event, and never
\* when the encoder has fired its stop event before the timer, also with a
\* second invocation on the same recorder.
C6_TimeoutOnlyWithoutStopSignal ==
    \A c \in StopIds :
        /\ stopPc[c] = "waitStop" => timer[c] = "armed" \/ flush[c] = "pending"
        /\ timer[c] = "fired" => err[c] = "StopTimedOut"
        /\ err[c] = "StopTimedOut" => ~signalled[c]

\* C7 (checked under SpecStop): when fixWebmDuration fails, VideoRecorder.stop
\* returns the blob it built before the repair, no error is raised and onError
\* is not invoked, and stopRecording goes on to the upload.
C7_RepairFailureKeepsArtifact ==
    \A c \in StopIds :
        repaired[c] = "failed"
        => /\ blob[c] = preRepair[c]
           /\ preRepair[c] # NoBlob
           /\ err[c] = ""
           /\ cb[c].onError = 0
           /\ IF c = 0 THEN stopPc[c] = "done"
              ELSE /\ stopPc[c] = "ticket"
                   /\ up[c].ticketReqs = 1
                   /\ cb[c].onRecordingStop = 1

\* a stopRecording call whose repair failed has sent its ticket request
C7_Witness ==
    \E c \in CallIds :
        /\ repaired[c] = "failed"
        /\ stopPc[c] = "ticket"
        /\ ~blob[c].fixed
        /\ blob[c].size >= 1000

\* the run of uploadToLivepeer made by call c has begun / has its ticket answer
RunStarted(c) == up[c].ticketReqs > 0
TicketAnswered(c) == RunStarted(c) /\ stopPc[c] # "ticket"

\* C8 (checked under SpecUpload): a run requests the ticket exactly once; when
\* the answer is an error or carries no assetId, the run fails with the
\* ticket-request error without any upload attempt or status poll.
C8_TicketOnceFailureStops ==
    \A c \in CallIds :
        RunStarted(c)
        => /\ up[c].ticketReqs = 1
           /\ ( TicketAnswered(c) /\ (up[c].ticket.error \/ ~up[c].ticket.assetId)
                => /\ stopPc[c] = "done"
                   /\ err[c] \in {"RequestUploadFailed", "NoAssetId"}
                   /\ cb[c].onError = 1
                   /\ cb[c].onComplete = 0
                   /\ up[c].tusAttempts = 0
                   /\ up[c].putAttempts = 0
                   /\ up[c].polls = 0 )

\* an answer without assetId ended the run
C8_Witness ==
    \E c \in CallIds :
        /\ TicketAnswered(c)
        /\ ~up[c].ticket.error
        /\ ~up[c].ticket.assetId
        /\ err[c] = "NoAssetId"

\* the errors the upload step ends a run with: 'Upload failed' (no endpoint
\* left), 'Upload failed: <status>' (PUT answered not ok), or the rejection
\* of the PUT's fetch
UploadErrors == {"UploadFailed", "PutFailed", "FetchRejected"}

\* the upload step of run c is over and no upload succeeded
NoUploadSucceeded(c) ==
    /\ TicketAnswered(c)
    /\ up[c].ticket.assetId
    /\ ~up[c].ticket.error
    /\ ~up[c].ticket.tus \/ up[c].tusResult = "failed"
    /\ ~up[c].ticket.put \/ up[c].putResult \in {"notOk", "rejected"}

\* C9 (checked under SpecUpload): the resumable upload is attempted first when
\* offered; the direct write is attempted only when the resumable upload was
\* not offered or failed; the run fails with the upload error, without a
\* status poll, exactly when no upload succeeded; a failed resumable upload
\* followed by a successful direct write goes on to polling.
C9_ResumableThenDirectWrite ==
    \A c \in CallIds :
        /\ up[c].tusAttempts <= 1 /\ up[c].putAttempts <= 1
        /\ up[c].tusAttempts = 1 => up[c].ticket.tus
        /\ TicketAnswered(c) /\ up[c].ticket.assetId /\ ~up[c].ticket.error /\ up[c].ticket.tus
           => up[c].tusAttempts = 1
        /\ up[c].putAttempts = 1
           => up[c].ticket.put /\ (~up[c].ticket.tus \/ up[c].tusResult = "failed")
        /\ NoUploadSucceeded(c)
           => stopPc[c] = "done" /\ err[c] \in UploadErrors /\ up[c].polls = 0
        /\ err[c] \in UploadErrors => NoUploadSucceeded(c)
        /\ up[c].polls > 0 => up[c].tusResult = "ok" \/ up[c].putResult = "ok"
        /\ up[c].tusResult = "failed" /\ up[c].putResult = "ok"
           => err[c] \notin UploadErrors /\ up[c].uploaded /\ up[c].polls >= 1

\* the resumable upload failed, the direct write succeeded, polling began
C9_Witness ==
    \E c \in CallIds :
        /\ up[c].tusResult = "failed"
        /\ up[c].putResult = "ok"
        /\ stopPc[c] = "poll"
        /\ up[c].polls = 1

\* C10 (checked under SpecUpload): in every state of a run onUploadDone has
\* fired once if some status poll so far was answered 'processing' and not at
\* all otherwise: it fires at the first 'processing' answer and never again.
C10_UploadDoneAtFirstProcessing ==
    \A c \in CallIds :
        cb[c].onUploadDone = IF up[c].seenProcessing THEN 1 ELSE 0

\* the answers queued, processing, processing, ready: fired once
C10_Witness ==
    \E c \in CallIds :
        /\ up[c].hist = ScriptedStatuses
        /\ up[c].polls = 4
        /\ cb[c].onUploadDone = 1
        /\ stopPc[c] = "done"

\* the last status answer of run c was 'ready'
SawReady(c) == up[c].status = "ready"

\* C11 as stated: whenever a poll observes 'ready' the run stops polling and
\* resolves with that answer's playbackId and the ticket's assetId; it does
\* not reject.
C11_ReadyAlwaysResolves ==
    \A c \in CallIds :
        SawReady(c)
        => /\ stopPc[c] = "done"
           /\ err[c] = ""
           /\ up[c].result = [assetId |-> "ticket", playbackId |-> << "poll", up[c].polls >>]

\* C11 (checked under SpecUpload): whenever a poll observes 'ready' the run
\* stops polling; when that answer carries a playbackId the run resolves with
\* the playbackId of that answer and the assetId of the ticket and does not
\* reject; when it carries none the run rejects with the missing-playback-id
\* error.  A run resolves only on 'ready'.
C11_ReadyResolvesWithItsPlaybackId ==
    \A c \in CallIds :
        /\ SawReady(c)
           => /\ stopPc[c] = "done"
              /\ up[c].attempts = up[c].polls - 1
              /\ IF up[c].playbackId
                 THEN /\ err[c] = ""
                      /\ cb[c].onComplete = 1 /\ cb[c].onError = 0
                      /\ up[c].result =
                            [assetId |-> "ticket", playbackId |-> << "poll", up[c].polls >>]
                 ELSE /\ err[c] = "NoPlaybackId"
                      /\ cb[c].onComplete = 0
                      /\ up[c].result = NoResult
        /\ up[c].result # NoResult => SawReady(c) /\ up[c].playbackId

\* 'ready' with a playbackId came at the fourth poll and the run resolved
C11_Witness ==
    \E c \in CallIds :
        /\ SawReady(c)
        /\ up[c].polls = 4
        /\ up[c].hist = ScriptedStatuses
        /\ up[c].result = [assetId |-> "ticket", playbackId |-> << "poll", 4 >>]
        /\ cb[c].onComplete = 1

\* C12 (checked under SpecUpload): a run never issues more than 300 status
\* polls; when 300 polls were answered without a terminal status the run
\* waits once more and then rejects with the processing-timeout error, having
\* issued exactly 300 polls; the timeout error arises in no other way and no
\* poll follows it.
C12_TimeoutAfterExactly300Polls ==
    \A c \in CallIds :
        /\ up[c].polls <= maxAttempts
        /\ up[c].attempts = maxAttempts
           => /\ up[c].polls = maxAttempts
              /\ stopPc[c] \in {"sleep", "done"}
              /\ stopPc[c] = "done" => err[c] = "ProcessingTimedOut"
        /\ err[c] = "ProcessingTimedOut"
           => /\ up[c].attempts = maxAttempts
              /\ up[c].polls = maxAttempts
              /\ stopPc[c] = "done"
              /\ ~SawReady(c)
              /\ cb[c].onError = 1 /\ cb[c].onComplete = 0
              /\ up[c].result = NoResult

\* 300 polls were answered without a terminal status and the run timed out
C12_Witness ==
    \E c \in CallIds :
        /\ err[c] = "ProcessingTimedOut"
        /\ up[c].polls = 300
        /\ up[c].status \in {"queued", "processing"}
        /\ stopPc[c] = "done"

\* C13 (checked under SpecUpload): when a poll is answered 'failed' the run
\* rejects at that poll with the processing-failed error, whose message
\* carries the reason the server reported, and issues no further poll.
C13_FailedRejectsAtOnce ==
    \A c \in CallIds :
        /\ up[c].status = "failed"
           => /\ stopPc[c] = "done"
              /\ err[c] = "ProcessingFailed"
              /\ up[c].reason => up[c].errorMsg = "error.message"
              /\ up[c].attempts = up[c].polls - 1
              /\ cb[c].onError = 1 /\ cb[c].onComplete = 0
              /\ up[c].result = NoResult
        /\ err[c] = "ProcessingFailed" => up[c].status \in {"failed", "error"}

\* the 300th poll was answered 'failed' with a reason
C13_Witness ==
    \E c \in CallIds :
        /\ up[c].status = "failed"
        /\ up[c].reason
        /\ up[c].polls = maxAttempts
        /\ err[c] = "ProcessingFailed"
        /\ up[c].errorMsg = "error.message"

\* the state of the uploader run of call c: 0 idle, 1 requesting-ticket,
\* 2 uploading, 3 polling, 4 terminal
UploaderState(c) ==
    IF stopPc[c] = "ticket" THEN 1
    ELSE IF stopPc[c] \in {"tus", "put"} THEN 2
    ELSE IF stopPc[c] \in {"poll", "sleep"} THEN 3
    ELSE IF stopPc[c] = "done" /\ RunStarted(c) THEN 4
    ELSE 0

\* the ticket of run c was obtained
TicketObtained(c) == TicketAnswered(c) /\ ~up[c].ticket.error /\ up[c].ticket.assetId

\* the terminal states run c is in: resolved ('ready'), processing failed,
\* timed out, or rejected for another reason
TerminalStates(c) ==
    { t \in {"ready", "failed", "timed-out", "rejected"} :
        \/ t = "ready" /\ up[c].result # NoResult
        \/ t = "failed" /\ err[c] = "ProcessingFailed"
        \/ t = "timed-out" /\ err[c] = "ProcessingTimedOut"
        \/ t = "rejected" /\ err[c] \notin {"", "ProcessingFailed", "ProcessingTimedOut"} }

PassedGuard(c) == stopVr[c] # 0

\* the failures of the recorder / uploader pipeline
StartFailures == {"NoElement", "CaptureNotSupported", "NoCaptureStream", "NoMimeType"}

StopFailures == {"NotStarted", "InvalidState", "StopTimedOut", "NoVideoData", "TooSmall"}

UploadFailures ==
    { "RequestUploadFailed", "NoAssetId", "UploadFailed", "PutFailed", "FetchRejected",
      "StatusCheckFailed", "NoPlaybackId", "ProcessingFailed", "ProcessingTimedOut" }

\* C15 as stated: every failure of the pipeline, in whichever invocation it
\* arises (the stop() of the unmount cleanup included), reaches onError, and
\* a stopRecording call that passed its guard ends with exactly one of
\* onComplete and onError.
C15_EveryFailureToOnError ==
    /\ \A c \in StartIds : startPc[c] = "failed" => startErr[c] \in StartFailures
    /\ \A c \in StopIds :
          /\ stopPc[c] = "done" /\ err[c] # "" => cb[c].onError = 1
          /\ stopPc[c] = "done" /\ PassedGuard(c) /\ c # 0
             => cb[c].onComplete + cb[c].onError = 1

\* C15 (checked under SpecPipeline): every failure of a startRecording or
\* stopRecording call reaches onError once; a stopRecording call that passed
\* its guard has invoked at most one of onComplete and onError, exactly one
\* when it has ended, and while it has not ended a timer, a microtask or a
\* network answer is still due to it.  A failure of the stop() made by the
\* unmount cleanup is logged and reaches no callback.
C15_CallFailuresToOnError ==
    /\ \A c \in StartIds :
          /\ startPc[c] = "failed" <=> startErr[c] # "" /\ startPc[c] # "pendingErr"
          /\ startErr[c] # "" => startErr[c] \in StartFailures
    /\ \A c \in CallIds :
          /\ cb[c].onComplete + cb[c].onError <= 1
          /\ stopPc[c] = "done" => cb[c].onComplete + cb[c].onError = 1
          /\ stopPc[c] = "done" /\ err[c] # ""
             => cb[c].onError = 1 /\ err[c] \in StopFailures \cup UploadFailures
          /\ cb[c].onComplete = 1 => stopPc[c] = "done" /\ err[c] = ""
          /\ cb[c].onError = 1 => stopPc[c] = "done" /\ err[c] # ""
          /\ PassedGuard(c) <=> stopPc[c] \notin {"none", "noop"}
          /\ stopPc[c] = "waitStop" => timer[c] = "armed" \/ flush[c] = "pending"
          /\ stopPc[c] = "rejected" => \E i \in 1..Len(microQ) : microQ[i] = << "stop", c >>
    /\ cb[0] = NoCb

\* a stopRecording call ended with the processing timeout handed to onError
C15_Witness ==
    \E c \in CallIds :
        /\ PassedGuard(c)
        /\ stopPc[c] = "done"
        /\ err[c] = "ProcessingTimedOut"
        /\ cb[c].onError = 1 /\ cb[c].onComplete = 0

\* a status poll of run c was answered with an error
PollFailed(c) == err[c] = "StatusCheckFailed"

\* C16 (checked under SpecUpload): no status poll is retried: every poll but
\* the one in flight or the one that ended the run was answered without a
\* terminal result; when a status poll returns an error the run rejects with
\* it at once, and from then on issues no status poll, upload or ticket
\* request.
C16_PollErrorNotRetried ==
    /\ [](\A c \in CallIds :
            /\ up[c].polls <= up[c].attempts + 1
            /\ PollFailed(c)
               => /\ stopPc[c] = "done"
                  /\ up[c].polls = up[c].attempts + 1
                  /\ cb[c].onError = 1 /\ cb[c].onComplete = 0
                  /\ up[c].result = NoResult)
    /\ [][\A c \in CallIds : PollFailed(c) => up'[c] = up[c] /\ stopPc'[c] = "done"]_vars

\* the third status poll returned an error and the run rejected
C16_Witness ==
    \E c \in CallIds :
        /\ PollFailed(c)
        /\ up[c].polls = 3
        /\ up[c].attempts = 2
        /\ stopPc[c] = "done"

\* the network calls run c has issued so far: ticket request, resumable
\* upload, direct write, status polls
Requests(c) == up[c].ticketReqs + up[c].tusAttempts + up[c].putAttempts + up[c].polls

\* the network calls of run c that are in flight
InFlight(c) == Requests(c) - up[c].answers

\* C17 (checked under SpecUpload): the network calls of one recording are
\* sequential: at most one is in flight at any time, none is in flight once
\* the run has ended, and a call is issued only when every earlier one has
\* been answered.
C17_NetworkCallsSequential ==
    /\ [](\A c \in CallIds :
            /\ InFlight(c) \in {0, 1}
            /\ InFlight(c) = 1 <=> stopPc[c] \in {"ticket", "tus", "put", "poll"}
            /\ up[c].ticketReqs <= 1 /\ up[c].tusAttempts <= 1 /\ up[c].putAttempts <= 1)
    /\ [][\A c \in CallIds :
            Requests(c)' > Requests(c)
            => Requests(c)' = Requests(c) + 1 /\ up'[c].answers = Requests(c)]_vars

\* a run has had its ticket, a failed resumable upload, a direct write and
\* one status answer, and its second status poll is in flight
C17_Witness ==
    \E c \in CallIds :
        /\ up[c].tusResult = "failed" /\ up[c].putResult = "ok"
        /\ up[c].polls = 2
        /\ up[c].answers = 4
        /\ InFlight(c) = 1

\* the step is the unmount of the component
UnmountStep == mounted /\ ~mounted'

\* C18 (checked under SpecPipeline): the unmount leaves no encoder recording,
\* clears the recorder reference, the start time and both flags, and leaves
\* every uploader run as it was: its state, its counters and its callbacks
\* are untouched, and a run that has ended after the unmount has invoked
\* exactly one of onComplete and onError.
C18_UnmountStopsRecordingKeepsUploads ==
    /\ [][UnmountStep
          => /\ ActiveEncoders' = {}
             /\ recorderRef' = 0 /\ ~recordStartTimeRef'
             /\ ~isRecordingRef' /\ ~isProcessingRef'
             /\ \A c \in CallIds :
                   /\ up'[c] = up[c]
                   /\ stopPc'[c] = stopPc[c]
                   /\ cb'[c] = cb[c]
                   /\ err'[c] = err[c]]_vars
    /\ [](\A c \in CallIds :
            ~mounted /\ RunStarted(c) /\ stopPc[c] = "done"
            => cb[c].onComplete + cb[c].onError = 1)

\* startRecording call c got past its guards
StartAttempted(c) == startPc[c] \notin {"none", "refused"}

\* the browser accepts none of the candidate types
NoCandidateSupported ==
    \A i \in 1..Len(mimeCandidates) : mimeCandidates[i] \notin browser.supported

\* the errors of a surface that cannot capture, and of no supported format
CaptureErrors == {"CaptureNotSupported", "NoCaptureStream"}

\* C19 (checked under SpecPipeline): on a surface that cannot capture an
\* output stream a startRecording call that found its element fails with the
\* unsupported-capture error, and where no candidate type is supported it
\* fails with the no-supported-format error; in both cases no encoder is
\* created, onRecordingStart is not invoked, and once the call has ended
\* onError was invoked once and recorder reference, start time and recording
\* flag are clear.
C19_StartFailuresLeaveNoSession ==
    \A c \in StartIds :
        /\ StartAttempted(c) /\ ~(browser.capture /\ browser.stream)
           => startErr[c] \in CaptureErrors \cup {"NoElement"}
        /\ StartAttempted(c) /\ browser.capture /\ browser.stream /\ NoCandidateSupported
           => startErr[c] \in {"NoMimeType", "NoElement"}
        /\ startErr[c] = "NoMimeType" => NoCandidateSupported
        /\ startErr[c] \in CaptureErrors => ~(browser.capture /\ browser.stream)
        /\ startErr[c] \in CaptureErrors \cup {"NoMimeType"}
           => /\ recorder[c] = "none"
              /\ mimeType[c] = ""
              /\ startCb[c].onRecordingStart = 0
              /\ startPc[c] \in {"pendingErr", "failed"}
              /\ startCb[c].onError = IF startPc[c] = "failed" THEN 1 ELSE 0
              /\ startPc[c] = "failed"
                 => recorderRef = 0 /\ ~recordStartTimeRef /\ ~isRecordingRef

\* a startRecording call has failed for lack of a supported type
C19_Witness ==
    \E c \in StartIds :
        /\ startPc[c] = "failed"
        /\ startErr[c] = "NoMimeType"
        /\ startCb[c] = [onRecordingStart |-> 0, onError |-> 1]
        /\ recorder[c] = "none"

\* stopRecording call c passed its guard and has settled
StopSettled(c) == PassedGuard(c) /\ stopPc[c] = "done"

\* C20 (checked under SpecStop, where one recording was started and no other
\* is): once a stopRecording call has settled, whether it succeeded or
\* failed, the instance holds no recording session (recorder reference and
\* start time are cleared) and a stopRecording call made later is a no-op.
C20_SessionDestroyedOnStop ==
    /\ []((\E c \in CallIds : StopSettled(c)) => recorderRef = 0 /\ ~recordStartTimeRef)
    /\ [][\A d \in CallIds :
            /\ \E c \in CallIds : StopSettled(c)
            /\ stopPc[d] = "none"
            /\ stopPc'[d] # "none"
            => stopPc'[d] = "noop"]_vars

\* ------------------------------------------------------------ SpecFormat
\* SpecFormat: one recording from startRecording to the return of
\* VideoRecorder.stop, on a browser that supports any subset of the
\* candidate types.
AllSupportedSets == SUBSET { mimeCandidates[i] : i \in 1..Len(mimeCandidates) }

FormatBrowsers ==
    { [capture |-> TRUE, stream |-> TRUE, supported |-> s] : s \in AllSupportedSets }

InitFormat ==
    /\ browser \in FormatBrowsers
    /\ StudioFresh
    /\ OutsideIdle

NextFormat ==
    \/ StartRecording(1, TRUE)
    \/ StartContinue(1)
    \/ \E size \in {499, MinBlobSize} : Len(emitted[1]) < MaxChunks /\ DataAvailable(1, size)
    \/ StopRecording(1)
    \/ EncoderStopEvent(1)
    \/ FlushTimer(1)
    \/ \E ok \in BOOLEAN, growth \in RepairGrowth : RepairDone(1, ok, growth)

SpecFormat == InitFormat /\ [][NextFormat]_vars

\* what VideoRecorder.stop returned to stopRecording call c
StopResult(c) == RecordingResult(blob[c], mimeType[stopVr[c]])

\* VideoRecorder.stop of call c has returned
StopReturned(c) == stopPc[c] \in {"ticket", "tus", "put", "poll", "sleep"}

\* the preference order: vp9+opus, vp8+opus, vp9, vp8, plain webm
PreferenceOrder ==
    << "video/webm;codecs=vp9,opus", "video/webm;codecs=vp8,opus",
       "video/webm;codecs=vp9", "video/webm;codecs=vp8", "video/webm" >>

\* the supported entry that no other supported entry precedes, "" if none
FirstSupported(supported) ==
    LET idx == { i \in 1..Len(PreferenceOrder) : PreferenceOrder[i] \in supported }
    IN  IF idx = {} THEN ""
        ELSE PreferenceOrder[CHOOSE i \in idx : \A j \in idx : i <= j]

\* C21: for every subset of supported formats, an encoder that start() has
\* created runs with the first supported entry of the preference list, start()
\* creates an encoder exactly when some entry is supported, and the artifact
\* stop() returns carries that entry as its format tag and as its blob type.
C21_FirstSupportedFormatSelected ==
    /\ \A v \in StartIds :
          /\ recorder[v] # "none" =>
                /\ mimeType[v] # ""
                /\ mimeType[v] = FirstSupported(browser.supported)
          /\ startPc[v] \in {"pendingOk", "started"} <=>
                /\ startPc[v] \notin {"none", "refused"}
                /\ FirstSupported(browser.supported) # ""
    /\ \A c \in CallIds :
          StopReturned(c) =>
             /\ StopResult(c).mimeType = FirstSupported(browser.supported)
             /\ StopResult(c).blobType = FirstSupported(browser.supported)
             /\ StopResult(c).blob = blob[c]

\* a browser without the two codec pairs and without vp9: stop() has returned
\* an artifact tagged vp8, the fourth entry
C21_Witness ==
    /\ browser.supported = {"video/webm;codecs=vp8", "video/webm"}
    /\ StopReturned(1)
    /\ StopResult(1).mimeType = "video/webm;codecs=vp8"

\* --------------------------------------------------- createDaydreamStream
\* answers of supabase.functions.invoke('daydream-stream'): an error, no data,
\* or the stream
CreateResponses == {"error", "noData", "stream"}

\* String.prototype.includes, on the texts of ErrorTexts and JsonTexts
Includes(text, needle) ==
    IF needle = "not ready"
    THEN text \in {"Stream not ready yet", "stream is not ready", "{error: Stream not ready yet}"}
    ELSE IF needle = "Stream not ready"
    THEN text \in {"Stream not ready yet", "{error: Stream not ready yet}"}
    ELSE FALSE

\* const errorMessage = error?.message || error?.error?.error || errorStr
ErrorMessage(e) ==
    IF e.message # "" THEN e.message ELSE IF e.nested # "" THEN e.nested ELSE e.json

\* errorMessage.includes(...) throws a TypeError when errorMessage is no string
ClassifyThrows(e) == ErrorMessage(e) = NonString

\* isNotReadyError (daydream.ts:96-100)
IsNotReadyError(e) ==
    \/ Includes(ErrorMessage(e), "not ready")
    \/ Includes(ErrorMessage(e), "Stream not ready")
    \/ Includes(e.json, "not ready")
    \/ Includes(e.json, "Stream not ready")

\* the loop condition: attempt < maxRetries (daydream.ts:80)
RetryLoopGoesOn_OneMore(attempt) == attempt <= maxRetries

RetryLoopGoesOn(attempt) == attempt < maxRetries

\* updateDaydreamPromptsWithRetry up to its first yield: attempt 0 calls
\* updateDaydreamPrompts without a wait (daydream.ts:80-88)
BeginUpdate(u) == [u EXCEPT !.pc = "call", !.calls = @ + 1]

\* how createDaydreamStream goes on once it holds the stream
\* (daydream.ts:59-67): the update is not awaited
AfterCreate_AwaitsUpdate(initialParams) == IF initialParams THEN "awaiting" ELSE "returned"

AfterCreate(initialParams) == "returned"

\* createDaydreamStream(initialParams) is called: the request is sent
CreateDaydreamStream(initialParams) ==
    /\ create.pc = "idle"
    /\ create' = [create EXCEPT !.pc = "creating", !.initialParams = initialParams]
    /\ UNCHANGED << update, whip, prompts, studioVars, loginVars, redeemVars, likesVars >>

\* the request settles (daydream.ts:47-67)
CreateSettled(resp) ==
    /\ create.pc = "creating"
    /\ IF resp = "error"
       THEN /\ create' = [create EXCEPT !.pc = "rejected", !.result = "error"]
            /\ UNCHANGED update
       ELSE IF resp = "noData"
       THEN /\ create' = [create EXCEPT !.pc = "rejected", !.result = "NoStreamData"]
            /\ UNCHANGED update
       ELSE /\ create' = [create EXCEPT !.pc = AfterCreate(create.initialParams),
                                        !.result = "stream"]
            /\ update' = IF create.initialParams THEN BeginUpdate(update) ELSE update
    /\ UNCHANGED << whip, prompts, studioVars, loginVars, redeemVars, likesVars >>

\* updateDaydreamPrompts settles: without error, or throwing e
\* (daydream.ts:82-114)
UpdateSettled(ok, e) ==
    /\ update.pc = "call"
    /\ update' =
          IF ok
          THEN [update EXCEPT !.pc = "done", !.outcome = "updated", !.succeeded = @ + 1]
          ELSE IF ClassifyThrows(e)
          THEN [update EXCEPT !.pc = "done", !.outcome = "rejected", !.error = e,
                              !.logged = TRUE, !.failed = @ + 1]
          ELSE IF ~IsNotReadyError(e)
          THEN [update EXCEPT !.pc = "done", !.outcome = "defaults", !.error = e,
                              !.failed = @ + 1]
          ELSE IF RetryLoopGoesOn(update.attempt + 1)
          THEN [update EXCEPT !.pc = "sleep", !.attempt = @ + 1, !.error = e,
                              !.failed = @ + 1]
          ELSE [update EXCEPT !.pc = "done", !.attempt = @ + 1, !.outcome = "gaveUp",
                              !.error = e, !.failed = @ + 1]
    /\ UNCHANGED << create, whip, prompts, studioVars, loginVars, redeemVars, likesVars >>

\* the delayMs timer fires: the next attempt calls updateDaydreamPrompts
\* (daydream.ts:83-88)
RetryTimer ==
    /\ update.pc = "sleep"
    /\ update' = BeginUpdate(update)
    /\ UNCHANGED << create, whip, prompts, studioVars, loginVars, redeemVars, likesVars >>

\* SpecStream: one createDaydreamStream call, with and without initialParams,
\* with every answer of the stream endpoint and every outcome of every
\* update attempt.
InitStream ==
    /\ StudioIdle
    /\ OutsideIdle

NextStream ==
    \/ \E initialParams \in BOOLEAN : CreateDaydreamStream(initialParams)
    \/ \E resp \in CreateResponses : CreateSettled(resp)
    \/ \E ok \in BOOLEAN, e \in UpdateErrors : UpdateSettled(ok, e)
    \/ RetryTimer

SpecStream == InitStream /\ [][NextStream]_vars

\* the update endpoint answers every call and the retry timer fires
FairSpecStream ==
    /\ SpecStream
    /\ WF_vars(\E ok \in BOOLEAN, e \in UpdateErrors : UpdateSettled(ok, e))
    /\ WF_vars(RetryTimer)

\* createDaydreamStream has settled
CreateSettledAlready == create.pc \in {"returned", "rejected"}

\* C22: createDaydreamStream has returned the stream by the time the
\* background update has made its first call; it settles in the step in which
\* the stream-creation call settles, with a result that call alone fixes; and
\* nothing the background update does afterwards changes that result.
C22_ReturnsWithoutWaitingForUpdate ==
    /\ [](update.pc # "idle" => create.pc = "returned" /\ create.result = "stream")
    /\ [](create.pc = "rejected" => update.pc = "idle" /\ create.result # "stream")
    /\ [][ /\ (create.pc = "creating" /\ create' # create => create'.pc \in {"returned", "rejected"})
           /\ (CreateSettledAlready => create' = create) ]_vars

\* the background update was rejected by a TypeError inside its catch block,
\* and the creator had returned the stream
C22_Witness ==
    /\ update.outcome = "rejected"
    /\ update.logged
    /\ create.pc = "returned"
    /\ create.result = "stream"

\* the background update has ended
UpdateEnded == update.pc = "done"

\* C23: the update calls updateDaydreamPrompts at most 10 times; a call that
\* succeeds ends it at once; a call that fails with an error not identified as
\* 'not ready' ends it at once, without a further call; a further call is made
\* only after a 'not ready' error; it gives up exactly after the 10th
\* 'not ready' error; once ended it makes no further call; and every started
\* update ends.
C23_AtMostTenAttemptsThenStops ==
    /\ [] /\ update.calls <= maxRetries
          /\ update.succeeded <= 1
          /\ update.pc = "sleep" => IsNotReadyError(update.error) /\ update.calls < maxRetries
          /\ update.outcome = "gaveUp" =>
                /\ update.calls = maxRetries
                /\ update.failed = maxRetries
                /\ IsNotReadyError(update.error)
          /\ update.outcome = "updated" <=> update.succeeded = 1
          /\ update.outcome = "defaults" => ~IsNotReadyError(update.error)
          /\ UpdateEnded <=> update.outcome # ""
    /\ [][ /\ (update'.calls > update.calls /\ update.calls > 0 =>
                  /\ update.pc = "sleep"
                  /\ IsNotReadyError(update.error)
                  /\ update'.calls = update.calls + 1)
           /\ (update'.succeeded > update.succeeded => UpdateEnded')
           /\ (update'.failed > update.failed =>
                  IF IsNotReadyError(update'.error) /\ ~ClassifyThrows(update'.error)
                  THEN UpdateEnded' <=> update'.failed = maxRetries
                  ELSE UpdateEnded' /\ update'.outcome \in {"defaults", "rejected"})
           /\ (UpdateEnded => update' = update) ]_vars
    /\ (update.pc # "idle" ~> UpdateEnded)

\* the tenth call has answered 'not ready' and the update has given up
C23_Witness ==
    /\ update.outcome = "gaveUp"
    /\ update.calls = maxRetries
    /\ update.attempt = maxRetries

\* ------------------------------------------------------------ Login page
\* const isAnon = session.user.is_anonymous || false (daydream.ts:861)
IsAnon(s) == s = "anonymous"

\* if (session) { ... if (!isAnon) navigate('/capture') } (daydream.ts:859-868)
ShouldRedirect_AnySession(s) == s # "none"

ShouldRedirect(s) == s # "none" /\ ~IsAnon(s)

\* the heading the page renders (daydream.ts:1026-1028)
View(sent, anon) == IF sent THEN "EnterCode" ELSE IF anon THEN "AddYourEmail" ELSE "SignIn"

\* the 'Continue without email' button is rendered (daydream.ts:1039-1049)
ContinueWithoutEmailShown(sent, anon) == ~sent /\ ~anon

\* the page is mounted: nothing has navigated away from it
PageOpen == navigated = {}

\* a button or form the page renders enabled can be used: the buttons that
\* start a handler are disabled while loading
CanStart == PageOpen /\ ~loading /\ handler.pc = "none"

loginFrame == << studioVars, streamVars, redeemVars, likesVars >>

\* catch and finally of a handler: a toast, setLoading(false)
HandlerFails ==
    /\ handler' = NoHandler
    /\ loading' = FALSE

\* the end of a handler that got through: navigate('/capture'), setLoading(false)
HandlerNavigates(who) ==
    /\ handler' = NoHandler
    /\ loading' = FALSE
    /\ navigated' = navigated \cup {who}

\* supabase.auth.getSession() resolves in checkExistingSession
\* (daydream.ts:856-870)
CheckExistingSession ==
    /\ checkPc = "pending"
    /\ checkPc' = "done"
    /\ isAnonymous' = IF session # "none" THEN IsAnon(session) ELSE isAnonymous
    /\ navigated' = IF ShouldRedirect(session) THEN navigated \cup {"check"} ELSE navigated
    /\ UNCHANGED << session, loading, otpSent, handler, usersWrites, users, loginFrame >>

\* 'Continue without email' is clicked (daydream.ts:875-878)
HandleAnonymousLogin ==
    /\ CanStart
    /\ ContinueWithoutEmailShown(otpSent, isAnonymous)
    /\ loading' = TRUE
    /\ handler' = [NoHandler EXCEPT !.pc = "anon.signIn", !.anon = isAnonymous]
    /\ UNCHANGED << session, isAnonymous, otpSent, checkPc, usersWrites, users, navigated, loginFrame >>

\* signInAnonymously settles (daydream.ts:878-890): with data.user the upsert
\* of { id, email: null } is sent
AnonSignInDone(ok, user) ==
    /\ handler.pc = "anon.signIn"
    /\ IF ~ok
       THEN /\ HandlerFails
            /\ UNCHANGED << session, usersWrites, users, navigated >>
       ELSE /\ session' = "anonymous"
            /\ IF user
               THEN /\ handler' = [handler EXCEPT !.pc = "anon.upsert"]
                    /\ usersWrites' = usersWrites \cup
                          {[by |-> "anonymous", email |-> FALSE, verified |-> FALSE]}
                    /\ UNCHANGED << loading, navigated, users >>
               ELSE /\ HandlerNavigates("anonymous")
                    /\ UNCHANGED << usersWrites, users >>
    /\ UNCHANGED << isAnonymous, otpSent, checkPc, loginFrame >>

\* the upsert of the anonymous user settles (daydream.ts:892-909)
AnonUpsertDone(ok) ==
    /\ handler.pc = "anon.upsert"
    /\ IF ok
       THEN /\ HandlerNavigates("anonymous")
            /\ users' = users \cup {[by |-> "anonymous", email |-> FALSE]}
       ELSE HandlerFails /\ UNCHANGED << navigated, users >>
    /\ UNCHANGED << session, isAnonymous, otpSent, checkPc, usersWrites, loginFrame >>

\* the email form is submitted (daydream.ts:914-924): the select on the users
\* table is sent
HandleSendOtp ==
    /\ CanStart
    /\ ~otpSent
    /\ loading' = TRUE
    /\ handler' = [NoHandler EXCEPT !.pc = "send.select", !.anon = isAnonymous]
    /\ UNCHANGED << session, isAnonymous, otpSent, checkPc, usersWrites, users, navigated, loginFrame >>

\* the select settles (daydream.ts:919-931); its error is not read
SendSelectDone ==
    /\ handler.pc = "send.select"
    /\ handler' = [handler EXCEPT !.pc = IF handler.anon THEN "send.updateUser"
                                         ELSE "send.signInWithOtp"]
    /\ UNCHANGED << session, isAnonymous, loading, otpSent, checkPc, usersWrites, users, navigated,
                    loginFrame >>

\* supabase.auth.updateUser({ email }) settles (daydream.ts:929-931)
SendUpdateUserDone(ok) ==
    /\ handler.pc = "send.updateUser"
    /\ IF ok
       THEN handler' = [handler EXCEPT !.pc = "send.signInWithOtp"] /\ UNCHANGED loading
       ELSE HandlerFails
    /\ UNCHANGED << session, isAnonymous, otpSent, checkPc, usersWrites, users, navigated, loginFrame >>

\* supabase.auth.signInWithOtp settles (daydream.ts:935-967)
SendSignInWithOtpDone(ok) ==
    /\ handler.pc = "send.signInWithOtp"
    /\ otpSent' = (ok \/ otpSent)
    /\ HandlerFails
    /\ UNCHANGED << session, isAnonymous, checkPc, usersWrites, users, navigated, loginFrame >>

\* the code form is submitted (daydream.ts:970-979)
HandleVerifyOtp ==
    /\ CanStart
    /\ otpSent
    /\ loading' = TRUE
    /\ handler' = [NoHandler EXCEPT !.pc = "verify.verifyOtp", !.anon = isAnonymous]
    /\ UNCHANGED << session, isAnonymous, otpSent, checkPc, usersWrites, users, navigated, loginFrame >>

\* if (error) throw error (daydream.ts:981)
AfterVerifyOtp_IgnoresError(ok) == "verify.getUser"

AfterVerifyOtp(ok) == IF ok THEN "verify.getUser" ELSE "catch"

\* supabase.auth.verifyOtp settles (daydream.ts:975-984)
VerifyOtpDone(ok) ==
    /\ handler.pc = "verify.verifyOtp"
    /\ session' = IF ok THEN "authenticated" ELSE session
    /\ IF AfterVerifyOtp(ok) = "catch"
       THEN HandlerFails
       ELSE /\ handler' = [handler EXCEPT !.pc = AfterVerifyOtp(ok), !.verified = ok]
            /\ UNCHANGED loading
    /\ UNCHANGED << isAnonymous, otpSent, checkPc, usersWrites, users, navigated, loginFrame >>

\* supabase.auth.getUser() settles (daydream.ts:984-992): with a user the
\* upsert of { id, email } is sent
VerifyGetUserDone(user) ==
    /\ handler.pc = "verify.getUser"
    /\ user => session # "none"
    /\ IF user
       THEN /\ handler' = [handler EXCEPT !.pc = "verify.upsert"]
            /\ usersWrites' = usersWrites \cup
                  {[by |-> "verify", email |-> TRUE, verified |-> handler.verified]}
            /\ UNCHANGED << loading, navigated, users >>
       ELSE /\ HandlerNavigates("verify")
            /\ UNCHANGED << usersWrites, users >>
    /\ UNCHANGED << session, isAnonymous, otpSent, checkPc, loginFrame >>

\* the upsert settles, the row written or not; its result is not read
\* (daydream.ts:986-1000)
VerifyUpsertDone(ok) ==
    /\ handler.pc = "verify.upsert"
    /\ HandlerNavigates("verify")
    /\ users' = IF ok THEN users \cup {[by |-> "verify", email |-> TRUE]} ELSE users
    /\ UNCHANGED << session, isAnonymous, otpSent, checkPc, usersWrites, loginFrame >>

\* 'Use a different email' is clicked (daydream.ts:1117-1123)
UseDifferentEmail ==
    /\ PageOpen
    /\ otpSent
    /\ otpSent' = FALSE
    /\ UNCHANGED << session, isAnonymous, loading, checkPc, handler, usersWrites, users, navigated,
                    loginFrame >>

\* 'Stay Anonymous' is clicked (daydream.ts:1087-1096)
StayAnonymous ==
    /\ PageOpen
    /\ ~loading
    /\ ~otpSent
    /\ isAnonymous
    /\ navigated' = navigated \cup {"stay"}
    /\ UNCHANGED << session, isAnonymous, loading, otpSent, checkPc, handler, usersWrites, users,
                    loginFrame >>

\* SpecLogin: the Login page opened by a user with no session, an anonymous
\* session or an authenticated one, the user pressing what the page offers,
\* and every answer of the Supabase calls.
InitLogin ==
    /\ StudioIdle
    /\ StreamIdle
    /\ session \in Sessions
    /\ LoginFresh
    /\ RedeemIdle
    /\ LikesFresh

NextLogin ==
    \/ CheckExistingSession
    \/ HandleAnonymousLogin
    \/ \E ok \in BOOLEAN, user \in BOOLEAN : AnonSignInDone(ok, user)
    \/ \E ok \in BOOLEAN : AnonUpsertDone(ok)
    \/ HandleSendOtp
    \/ SendSelectDone
    \/ \E ok \in BOOLEAN : SendUpdateUserDone(ok)
    \/ \E ok \in BOOLEAN : SendSignInWithOtpDone(ok)
    \/ HandleVerifyOtp
    \/ \E ok \in BOOLEAN : VerifyOtpDone(ok)
    \/ \E user \in BOOLEAN : VerifyGetUserDone(user)
    \/ \E ok \in BOOLEAN : VerifyUpsertDone(ok)
    \/ UseDifferentEmail
    \/ StayAnonymous

SpecLogin == InitLogin /\ [][NextLogin]_vars

\* the steps of handleSendOtp and of handleVerifyOtp
SendSteps == {"send.select", "send.updateUser", "send.signInWithOtp"}

VerifySteps == {"verify.verifyOtp", "verify.getUser", "verify.upsert"}

CheckCompletes == checkPc = "pending" /\ checkPc' = "done"

\* C25: when the session check of the opened page completes, it redirects to
\* /capture exactly when the session is authenticated (not anonymous); with an
\* anonymous session it does not redirect and the page, unless a code was
\* sent meanwhile, shows the add-your-email flow; with no session it does not
\* redirect and the page shows the sign-in flow with the
\* continue-without-email option; and nothing but that check redirects
\* without the user pressing a button.
C25_RedirectOnlyWhenAuthenticated ==
    /\ []("check" \in navigated => checkPc = "done")
    /\ [](isAnonymous => checkPc = "done")
    /\ [][ /\ (CheckCompletes =>
                 /\ ("check" \in navigated') <=> (session = "authenticated")
                 /\ session = "authenticated" => navigated' # {}
                 /\ session = "anonymous" =>
                       /\ navigated' = navigated
                       /\ isAnonymous'
                       /\ ~otpSent' => View(otpSent', isAnonymous') = "AddYourEmail"
                       /\ ~ContinueWithoutEmailShown(otpSent', isAnonymous')
                 /\ session = "none" =>
                       /\ navigated' = navigated
                       /\ ~isAnonymous'
                       /\ ~otpSent' =>
                             /\ View(otpSent', isAnonymous') = "SignIn"
                             /\ ContinueWithoutEmailShown(otpSent', isAnonymous'))
           /\ (~CheckCompletes => ("check" \in navigated') = ("check" \in navigated)) ]_vars

\* an anonymous user has opened the page: the check is done, nothing has
\* navigated, and the page shows the add-your-email flow
C25_Witness ==
    /\ checkPc = "done"
    /\ session = "anonymous"
    /\ isAnonymous
    /\ navigated = {}
    /\ handler = NoHandler
    /\ View(otpSent, isAnonymous) = "AddYourEmail"

\* ---------------------------------------------------------- redeem-ticket
\* a body that req.json() cannot parse
Malformed == "<malformed>"

\* the code of a request body: missing, a ticket's code, an unknown code
RequestCodes == TicketCodes \cup {"", "X", Malformed}

Respond(status, error) == [status |-> status, error |-> error, success |-> FALSE]

\* the 200 response: { success: true, ticket } (part_002:141-146)
Success == [status |-> 200, error |-> "", success |-> TRUE]

\* .update({ redeemed: true }) (part_002:127-132)
RedeemedAfterUpdate_Toggle(old) == ~old

RedeemedAfterUpdate(old) == TRUE

redeemFrame == << studioVars, streamVars, loginVars, likesVars >>

\* a request arrives: the body is parsed and the code checked
\* (part_002:92-107); with a code the select is sent
Receive(r, code) ==
    /\ reqPc[r] = "none"
    /\ reqCode' = [reqCode EXCEPT ![r] = code]
    /\ IF code = Malformed
       THEN /\ reqPc' = [reqPc EXCEPT ![r] = "done"]
            /\ response' = [response EXCEPT ![r] = Respond(500, "Unexpected token")]
       ELSE IF code = ""
       THEN /\ reqPc' = [reqPc EXCEPT ![r] = "done"]
            /\ response' = [response EXCEPT ![r] = Respond(400, "Ticket code is required")]
       ELSE /\ reqPc' = [reqPc EXCEPT ![r] = "select"]
            /\ UNCHANGED response
    /\ UNCHANGED << tickets, redeemFrame >>

\* the select settles (part_002:102-125); dbOk: the database answered
\* without error
SelectDone(r, dbOk) ==
    /\ reqPc[r] = "select"
    /\ IF ~dbOk \/ reqCode[r] \notin TicketCodes
       THEN /\ reqPc' = [reqPc EXCEPT ![r] = "done"]
            /\ response' = [response EXCEPT ![r] = Respond(404, "Ticket not found")]
       ELSE IF tickets[reqCode[r]]
       THEN /\ reqPc' = [reqPc EXCEPT ![r] = "done"]
            /\ response' = [response EXCEPT ![r] = Respond(400, "Ticket already redeemed")]
       ELSE /\ reqPc' = [reqPc EXCEPT ![r] = "update"]
            /\ UNCHANGED response
    /\ UNCHANGED << tickets, reqCode, redeemFrame >>

\* the update settles (part_002:127-146); on an error nothing was written
UpdateDone(r, dbOk) ==
    /\ reqPc[r] = "update"
    /\ reqPc' = [reqPc EXCEPT ![r] = "done"]
    /\ IF dbOk
       THEN /\ tickets' = [tickets EXCEPT ![reqCode[r]] = RedeemedAfterUpdate(@)]
            /\ response' = [response EXCEPT ![r] = Success]
       ELSE /\ response' = [response EXCEPT ![r] = Respond(500, "update failed")]
            /\ UNCHANGED tickets
    /\ UNCHANGED << reqCode, redeemFrame >>

\* SpecRedeem: MaxRequests requests to the redeem-ticket function, for any
\* codes, their database calls interleaved in any order, on a tickets table
\* with tickets redeemed or not.
InitRedeem ==
    /\ StudioIdle
    /\ StreamIdle
    /\ LoginIdle
    /\ tickets \in [TicketCodes -> BOOLEAN]
    /\ RedeemFresh
    /\ LikesFresh

NextRedeem ==
    \/ \E r \in RequestIds, code \in RequestCodes : Receive(r, code)
    \/ \E r \in RequestIds, dbOk \in BOOLEAN : SelectDone(r, dbOk)
    \/ \E r \in RequestIds, dbOk \in BOOLEAN : UpdateDone(r, dbOk)

SpecRedeem == InitRedeem /\ [][NextRedeem]_vars

\* the requests for a code that were answered with success
Redeemers(code) == { r \in RequestIds : reqCode[r] = code /\ response[r].success }

\* C26: for every ticket code at most one request is answered with success,
\* and once a request for the code has been answered with success every other
\* request for that code that was answered without a database failure carries
\* the 'Ticket already redeemed' error.
C26_TicketRedeemedAtMostOnce ==
    \A code \in TicketCodes :
       /\ Cardinality(Redeemers(code)) <= 1
       /\ \A r, q \in RequestIds :
             /\ r # q
             /\ reqCode[r] = code /\ reqCode[q] = code
             /\ response[r].success
             /\ reqPc[q] = "done"
             /\ response[q].status \notin {404, 500}
             => response[q].error = "Ticket already redeemed"

\* request r is answered in this step
Answers(r) == reqPc[r] # "done" /\ reqPc'[r] = "done"

\* C27: a step that changes the tickets table is the answer of a request with
\* success, and it changes the ticket of that request's code only; a request
\* answered without success (400 for no code, 404, 400 for a redeemed ticket,
\* 500) leaves every ticket unchanged; and no step sets a redeemed flag that
\* is true back to false.
C27_TicketStateChangesOnlyOnSuccess ==
    [][ /\ \A code \in TicketCodes : tickets[code] => tickets'[code]
        /\ \A r \in RequestIds :
              Answers(r) /\ ~response'[r].success =>
                 /\ tickets' = tickets
                 /\ response'[r].status \in {400, 404, 500}
        /\ tickets' # tickets =>
              \E r \in RequestIds :
                 /\ Answers(r)
                 /\ response'[r].success
                 /\ \A code \in TicketCodes : code # reqCode[r] => tickets'[code] = tickets[code]
        /\ \A r \in RequestIds :
              Answers(r) /\ response'[r].success => tickets'[reqCode[r]] ]_vars

\* one request was refused because its ticket was redeemed, another was
\* answered 'not found' for an unknown code, and the unredeemed ticket is
\* still unredeemed
C27_Witness ==
    /\ \E r \in RequestIds :
          /\ response[r].error = "Ticket already redeemed"
          /\ tickets[reqCode[r]]
    /\ \E r \in RequestIds : response[r].status = 404 /\ reqCode[r] = "X"
    /\ \E code \in TicketCodes : ~tickets[code]

\* ------------------------------------------------------------- clip_likes
\* CONSTRAINT clip_likes_unique_user_clip UNIQUE (clip_id, user_id)
\* (part_002:17-18): the insert of a second row for the pair is rejected
UniqueViolation_None(rows, clip, user) == FALSE

UniqueViolation(rows, clip, user) == rows[<< clip, user >>] >= 1

\* clip_id REFERENCES public.clips(id) (part_002:11)
ForeignKeyViolation(clip) == clip \notin clips

\* update_clip_likes_count, TG_OP = 'INSERT': likes_count + 1 (part_002:42-46)
AfterInsertCount(n) == n + 1

\* update_clip_likes_count, TG_OP = 'DELETE': GREATEST(0, likes_count - 1)
\* (part_002:47-51)
AfterDeleteCount_NoDecrement(n) == n

AfterDeleteCount(n) == IF n - 1 > 0 THEN n - 1 ELSE 0

\* the trigger runs FOR EACH ROW (part_002:58-61): once per deleted row
RECURSIVE AfterDeletes(_, _)
AfterDeletes(n, k) == IF k = 0 THEN n ELSE AfterDeletes(AfterDeleteCount(n), k - 1)

likesFrame == << studioVars, streamVars, loginVars, redeemVars >>

\* INSERT INTO clip_likes (clip_id, user_id): the constraints are checked,
\* the row is added, the AFTER INSERT trigger runs; a rejected statement
\* changes nothing and fires no trigger
InsertLike(clip, user) ==
    /\ likeInserts < MaxLikeInserts
    /\ likeInserts' = likeInserts + 1
    /\ IF ForeignKeyViolation(clip)
       THEN /\ lastLike' = [op |-> "insert", clip |-> clip, user |-> user,
                            result |-> "ForeignKeyViolation"]
            /\ UNCHANGED << clip_likes, likes_count >>
       ELSE IF UniqueViolation(clip_likes, clip, user)
       THEN /\ lastLike' = [op |-> "insert", clip |-> clip, user |-> user,
                            result |-> "UniqueViolation"]
            /\ UNCHANGED << clip_likes, likes_count >>
       ELSE /\ lastLike' = [op |-> "insert", clip |-> clip, user |-> user,
                            result |-> "inserted"]
            /\ clip_likes' = [clip_likes EXCEPT ![<< clip, user >>] = @ + 1]
            /\ likes_count' = [likes_count EXCEPT ![clip] = AfterInsertCount(@)]
    /\ UNCHANGED << clips, likesFrame >>

\* DELETE FROM clip_likes WHERE clip_id = clip AND user_id = user: the rows
\* of the pair go, the AFTER DELETE trigger runs for each
DeleteLike(clip, user) ==
    /\ lastLike' = [op |-> "delete", clip |-> clip, user |-> user,
                    result |-> IF clip_likes[<< clip, user >>] > 0 THEN "deleted" ELSE "none"]
    /\ clip_likes' = [clip_likes EXCEPT ![<< clip, user >>] = 0]
    /\ likes_count' =
          [likes_count EXCEPT ![clip] = AfterDeletes(@, clip_likes[<< clip, user >>])]
    /\ UNCHANGED << clips, likeInserts, likesFrame >>

\* DELETE FROM clips WHERE id = clip: ON DELETE CASCADE removes its likes
\* (part_002:11); the trigger's UPDATE finds no clip row to change
DeleteClip(clip) ==
    /\ clip \in clips
    /\ clips' = clips \ {clip}
    /\ clip_likes' = [p \in ClipIds \X UserIds |-> IF p[1] = clip THEN 0 ELSE clip_likes[p]]
    /\ likes_count' = [likes_count EXCEPT ![clip] = 0]
    /\ lastLike' = [op |-> "deleteClip", clip |-> clip, user |-> "", result |-> "deleted"]
    /\ UNCHANGED << likeInserts, likesFrame >>

\* SpecLikes: the database after the migration, then likes inserted and
\* deleted for any clip and user, and clips deleted.
InitLikes ==
    /\ StudioIdle
    /\ OutsideIdle

NextLikes ==
    \/ \E clip \in ClipIds, user \in UserIds : InsertLike(clip, user)
    \/ \E clip \in ClipIds, user \in UserIds : DeleteLike(clip, user)
    \/ \E clip \in ClipIds : DeleteClip(clip)

SpecLikes == InitLikes /\ [][NextLikes]_vars

\* C28: every clip's likes_count equals the number of clip_likes rows of the
\* clip and is not negative, in every state reached by inserting and deleting
\* likes.
C28_LikesCountMatchesRows ==
    \A clip \in clips :
       /\ likes_count[clip] = RowsOf(clip_likes, clip)
       /\ likes_count[clip] >= 0

\* a like was deleted from one clip while the other clip holds two likes
C28_Witness ==
    /\ lastLike.op = "delete"
    /\ lastLike.result = "deleted"
    /\ \E clip \in clips :
          /\ clip # lastLike.clip
          /\ likes_count[clip] = 2
          /\ RowsOf(clip_likes, clip) = 2
    /\ lastLike.clip \in clips
    /\ likes_count[lastLike.clip] = 1

\* an INSERT statement for the pair runs in this step
Inserts(clip, user) ==
    /\ likeInserts' = likeInserts + 1
    /\ lastLike'.clip = clip
    /\ lastLike'.user = user

\* C29: no (clip, user) pair ever has more than one clip_likes row; an insert
\* for a pair that has a row is rejected with the unique violation and changes
\* neither clip_likes nor any likes_count; an insert for a pair of an existing
\* clip that has no row is accepted.
C29_OneLikePerUserAndClip ==
    /\ [](\A p \in ClipIds \X UserIds : clip_likes[p] <= 1)
    /\ [][ \A clip \in ClipIds, user \in UserIds :
              /\ (Inserts(clip, user) /\ clip_likes[<< clip, user >>] >= 1 =>
                    /\ lastLike'.result = "UniqueViolation"
                    /\ clip_likes' = clip_likes
                    /\ likes_count' = likes_count)
              /\ (Inserts(clip, user) /\ clip_likes[<< clip, user >>] = 0 /\ clip \in clips =>
                    /\ lastLike'.result = "inserted"
                    /\ clip_likes'[<< clip, user >>] = 1) ]_vars

\* a second like of the same user for the same clip has just been rejected,
\* and the clip still counts the one like
C29_Witness ==
    /\ lastLike.op = "insert"
    /\ lastLike.result = "UniqueViolation"
    /\ clip_likes[<< lastLike.clip, lastLike.user >>] = 1
    /\ likes_count[lastLike.clip] = 1

\* ------------------------------------------------- overlapping processing
\* the stop / upload / poll processing of stopRecording call c is in flight
ProcessingInFlight(c) ==
    stopPc[c] \in {"waitStop", "repair", "ticket", "tus", "put", "poll", "sleep"}

\* startRecording call s is made in this step
StartCalled(s) == startPc[s] = "none" /\ startPc'[s] # "none"

\* C30: a startRecording call made while the processing of some stopRecording
\* call is in flight creates no encoder and does not go on to start a
\* recording, whatever other stopRecording calls were made or have failed
\* meanwhile.
C30_NoStartWhileProcessing ==
    [][ \A s \in StartIds :
           StartCalled(s) /\ (\E c \in CallIds : ProcessingInFlight(c)) =>
              /\ recorder'[s] = "none"
              /\ startPc'[s] \notin {"pendingOk", "started"} ]_vars

\* ------------------------------------------------ uploads of one recording
\* the stopRecording calls that stopped recorder v
StopCallsOf(v) == { c \in CallIds : stopVr[c] = v }

\* the uploader runs made for recorder v: one ticket request each
RECURSIVE RunsAmong(_)
RunsAmong(cs) ==
    IF cs = {} THEN 0
    ELSE LET c == CHOOSE x \in cs : TRUE IN up[c].ticketReqs + RunsAmong(cs \ {c})

UploaderRuns(v) == RunsAmong(StopCallsOf(v))

\* every stopRecording call made on recorder v has left VideoRecorder.stop
StopsSettled(v) ==
    \A c \in StopCallsOf(v) : stopPc[c] \notin {"none", "waitStop", "rejected", "repair"}

\* C31: no recording has more than one uploader run; and when two
\* stopRecording calls have overlapped on a recording of sufficient size whose
\* encoder fired its stop event before any stop timeout, and both have left
\* VideoRecorder.stop, the recording has exactly one uploader run.
C31_OneUploadPerRecording ==
    \A v \in StartIds :
       /\ UploaderRuns(v) <= 1
       /\ ( /\ mounted
            /\ Cardinality(StopCallsOf(v)) = 2
            /\ stopEvt[v] = "fired"
            /\ SumSeq(chunks[v]) >= MinBlobSize
            /\ StopsSettled(v)
            /\ \A c \in StopCallsOf(v) : err[c] = "StopTimedOut" => signalled[c]
          ) => UploaderRuns(v) = 1

\* C32: every uploader run that has resolved (returned its asset) has invoked
\* onUploadDone exactly once, whatever statuses the status endpoint answered
\* before 'ready'.
C32_UploadDoneBeforeResolve ==
    \A c \in CallIds :
       up[c].result # NoResult => cb[c].onUploadDone = 1

\* callbacks invoked so far for recording v, over the stopRecording calls on it
RECURSIVE CallbacksAmong(_, _, _)
CallbacksAmong(f, cs, name) ==
    IF cs = {} THEN 0
    ELSE LET c == CHOOSE x \in cs : TRUE
         IN f[c][name] + CallbacksAmong(f, cs \ {c}, name)

StopsInvoked(f, v) == CallbacksAmong(f, StopCallsOf(v) \ {0}, "onRecordingStop")

UploadDonesInvoked(f, v) == CallbacksAmong(f, StopCallsOf(v) \ {0}, "onUploadDone")

CompletesInvoked(f, v) == CallbacksAmong(f, StopCallsOf(v) \ {0}, "onComplete")

\* C33: in every step, for every recording: onRecordingStop is invoked only
\* after onRecordingStart and before any onUploadDone or onComplete, by a call
\* whose encoder stop did not fail; onUploadDone only after onRecordingStop and
\* before onComplete; onComplete only after onRecordingStop, by a run whose
\* last status answer is 'ready' with a playbackId.
C33_CallbackOrder ==
    [][ \A c \in StopIds :
          LET v == stopVr'[c]
          IN /\ cb'[c].onRecordingStop > cb[c].onRecordingStop
                  => /\ startCb[v].onRecordingStart >= 1
                     /\ StopsInvoked(cb, v) = 0
                     /\ UploadDonesInvoked(cb, v) = 0
                     /\ CompletesInvoked(cb, v) = 0
                     /\ err'[c] = ""
                     /\ stopEvt[v] = "fired"
             /\ cb'[c].onUploadDone > cb[c].onUploadDone
                  => /\ cb[c].onRecordingStop = 1
                     /\ UploadDonesInvoked(cb, v) = 0
                     /\ CompletesInvoked(cb', v) = 0
             /\ cb'[c].onComplete > cb[c].onComplete
                  => /\ cb[c].onRecordingStop = 1
                     /\ CompletesInvoked(cb, v) = 0
                     /\ up'[c].status = "ready" /\ up'[c].playbackId
                     /\ cb'[c].onUploadDone = cb[c].onUploadDone ]_vars

\* a recording went through onRecordingStart, onRecordingStop, onUploadDone
\* and onComplete
C33_Witness ==
    \E c \in StopIds :
       /\ stopVr[c] # 0
       /\ startCb[stopVr[c]].onRecordingStart = 1
       /\ cb[c] = [onRecordingStop |-> 1, onUploadDone |-> 1, onComplete |-> 1, onError |-> 0]

\* ------------------------------------------------------------ onProgress
\* SpecProgress: one recording from startRecording through one stopRecording
\* call and its upload, the status endpoint answering every status with every
\* progress in AssetProgress.  up[c].phase is the phase of the last onProgress
\* event of call c (the events at daydream.ts:522, 546-553 and 568 repeat
\* 'uploading'), up[c].progress the progress of the last 'processing' or
\* 'complete' event.
ProgressTicketResponses == { r \in TicketResponses : ~r.error /\ r.assetId /\ r.put }

NextProgress ==
    \/ StartRecording(1, TRUE)
    \/ StartContinue(1)
    \/ Len(emitted[1]) < MaxChunks /\ DataAvailable(1, MinBlobSize)
    \/ StopRecording(1)
    \/ EncoderStopEvent(1)
    \/ FlushTimer(1)
    \/ \E ok \in BOOLEAN : RepairDone(1, ok, 0)
    \/ \E resp \in ProgressTicketResponses : TicketResponse(1, resp)
    \/ \E ok \in BOOLEAN : TusDone(1, ok)
    \/ \E result \in {"ok", "notOk"} : PutDone(1, result)
    \/ \E resp \in PollResponses, progress \in AssetProgress :
          /\ IsTerminal(resp) \/ up[1].attempts <= MaxPendingPolls
          /\ PollAnswer(1, resp, progress)
    \/ PollSleepDone(1)

SpecProgress == InitStream /\ [][NextProgress]_vars

\* recording, uploading, processing, complete; 0 before any event
PhaseRank(phase) ==
    IF phase = "" THEN 0
    ELSE IF phase = "recording" THEN 1
    ELSE IF phase = "uploading" THEN 2
    ELSE IF phase = "processing" THEN 3
    ELSE 4

\* the phase of the last onProgress event for recording v: 'recording' is
\* reported by startRecording together with onRecordingStart
\* (daydream.ts:720-721), the later ones by the stopRecording calls on v
LastPhase(f, g, v) ==
    IF \E c \in StopCallsOf(v) : g[c].phase # ""
    THEN g[CHOOSE c \in StopCallsOf(v) :
               \A d \in StopCallsOf(v) : PhaseRank(g[d].phase) <= PhaseRank(g[c].phase)].phase
    ELSE IF f[v].onRecordingStart >= 1 THEN "recording"
    ELSE ""

\* C34: in every step the phase reported for a recording does not go back in
\* the order recording, uploading, processing, complete, and every event of a
\* stopRecording call comes after the 'recording' event; a call whose last
\* event is 'processing' reported at most 99; a call whose last event is
\* 'complete' reported 100 and its last status answer is 'ready' with a
\* playbackId.
C34_ProgressPhasesInOrder ==
    /\ [][ /\ \A v \in StartIds :
                PhaseRank(LastPhase(startCb', up', v)) >= PhaseRank(LastPhase(startCb, up, v))
           /\ \A c \in CallIds :
                /\ PhaseRank(up'[c].phase) >= PhaseRank(up[c].phase)
                /\ up'[c].phase # "" /\ up[c].phase = ""
                     => startCb[stopVr'[c]].onRecordingStart >= 1
           /\ \A v \in StartIds :
                startCb'[v].onRecordingStart > startCb[v].onRecordingStart
                     => \A c \in StopCallsOf(v) : up[c].phase = "" ]_vars
    /\ [] \A c \in CallIds :
            /\ up[c].phase = "processing" => up[c].progress <= Percent(99)
            /\ up[c].phase = "complete"
                 => /\ up[c].progress = Percent(100)
                    /\ up[c].status = "ready" /\ up[c].playbackId

\* a run reported 'processing' at the cap of 99 for an answer carrying a
\* progress above it, and a run ended with 'complete'
C34_Witness ==
    \E c \in CallIds :
       /\ up[c].phase = "complete"
       /\ up[c].seenProcessing
       /\ stopVr[c] # 0
       /\ startCb[stopVr[c]].onRecordingStart = 1

C34_CappedWitness ==
    \E c \in CallIds : up[c].phase = "processing" /\ up[c].progress = Percent(99)

\* ------------------------------------------------------------- fragments
\* SpecFragments: one recording in progress whose encoder emits up to
\* MaxFragments fragments of every size in ChunkSizes, before the stop and
\* between the stop and the stop event, then one stopRecording call.
NextFragments ==
    \/ \E size \in ChunkSizes : Len(emitted[1]) < MaxFragments /\ DataAvailable(1, size)
    \/ StopRecording(1)
    \/ EncoderStopEvent(1)
    \/ FlushTimer(1)
    \/ StopTimeout(1)
    \/ \E ok \in BOOLEAN, growth \in RepairGrowth : RepairDone(1, ok, growth)

SpecFragments == InitStop /\ [][NextFragments]_vars

IsNonEmpty(size) == size > 0

\* the non-empty fragments among those emitted, in emission order
NonEmptyEmitted(v) == SelectSeq(emitted[v], IsNonEmpty)

IsPrefix(s, t) == Len(s) <= Len(t) /\ SubSeq(t, 1, Len(s)) = s

\* C35: the fragment list of every recorder is, in every state, the sequence
\* of the non-empty fragments emitted so far in emission order; every step
\* leaves the list as it is or appends one fragment at its end; and the blob
\* VideoRecorder.stop builds has exactly the fragments of the list as its
\* parts, in that order, its size being their sum.
C35_FragmentsOrderedAppendOnly ==
    /\ [] \A v \in StartIds : chunks[v] = NonEmptyEmitted(v)
    /\ [][ \A v \in StartIds :
             /\ IsPrefix(chunks[v], chunks'[v])
             /\ Len(chunks'[v]) <= Len(chunks[v]) + 1 ]_vars
    /\ [] \A c \in StopIds :
            preRepair[c] # NoBlob
               => /\ preRepair[c].parts = chunks[stopVr[c]]
                  /\ preRepair[c].parts = NonEmptyEmitted(stopVr[c])
                  /\ preRepair[c].size = SumSeq(chunks[stopVr[c]])

\* an empty fragment was emitted between two non-empty ones of different
\* sizes, and the blob was built from the two
C35_Witness ==
    \E c \in StopIds :
       /\ stopVr[c] # 0
       /\ emitted[stopVr[c]] = << 500, 0, 1000 >>
       /\ preRepair[c].parts = << 500, 1000 >>

\* ----------------------------------------------------- the verified row
\* handleVerifyOtp ends in this step with the success toast and
\* navigate('/capture') (daydream.ts:995-1000)
VerifyReportsSuccess ==
    /\ handler.pc \in {"verify.getUser", "verify.upsert"}
    /\ handler'.pc = "none"
    /\ "verify" \in navigated'

\* C36: whenever handleVerifyOtp ends by reporting success and navigating,
\* the users table holds the row with the verified user's email, written by
\* that handler; an upsert that failed is never followed by the report.
C36_VerifiedRowBeforeSuccess ==
    [][ VerifyReportsSuccess => [by |-> "verify", email |-> TRUE] \in users' ]_vars

\* ------------------------------------------------------- startWhipPublish
\* calls of startWhipPublish in SpecWhip
MaxPublishes == 2

whipFrame == << create, update, prompts, studioVars, loginVars, redeemVars, likesVars >>

\* the race of daydream.ts:152-167 is resolved and the function goes on: the
\* offer is posted (daydream.ts:170-177)
PostOffer(w, by) == [w EXCEPT !.pc = "posting", !.posts = @ + 1, !.postedOn = by]

\* if (!response.ok) throw (daydream.ts:179-181); a rejected fetch throws too
AfterPost_IgnoresStatus(result) == IF result = "rejected" THEN "failed" ELSE "text"

AfterPost(result) == IF result = "ok" THEN "text" ELSE "failed"

\* startWhipPublish is called: the connection is made, the tracks are added
\* and createOffer is awaited (daydream.ts:128-144)
StartWhipPublish ==
    /\ whip.pc \in {"idle", "returned", "failed"}
    /\ whip.runs < MaxPublishes
    /\ whip' = [NoWhip EXCEPT !.pc = "createOffer", !.runs = whip.runs + 1]
    /\ UNCHANGED whipFrame

\* createOffer settles; setLocalDescription is awaited (daydream.ts:141-145)
CreateOfferDone(ok) ==
    /\ whip.pc = "createOffer"
    /\ whip' = [whip EXCEPT !.pc = IF ok THEN "setLocal" ELSE "failed"]
    /\ UNCHANGED whipFrame

\* setLocalDescription settles, the gathering state being state by then; the
\* timer is armed, and the offer is posted at once when gathering is complete
\* already (daydream.ts:145-167)
SetLocalDone(ok, state) ==
    /\ whip.pc = "setLocal"
    /\ whip' = IF ~ok THEN [whip EXCEPT !.pc = "failed"]
               ELSE IF state = "complete"
               THEN PostOffer([whip EXCEPT !.ice = state, !.timer = "armed"], "complete")
               ELSE [whip EXCEPT !.pc = "gathering", !.ice = state, !.timer = "armed",
                                 !.listener = TRUE]
    /\ UNCHANGED whipFrame

\* an icegatheringstatechange event: checkState, when attached, removes
\* itself and resolves when the state is 'complete' (daydream.ts:156-161)
IceGatheringStateChange(state) ==
    /\ whip.timer # "none"
    /\ state # whip.ice
    /\ whip' = IF whip.listener /\ state = "complete"
               THEN IF whip.pc = "gathering"
                    THEN PostOffer([whip EXCEPT !.ice = state, !.listener = FALSE], "complete")
                    ELSE [whip EXCEPT !.ice = state, !.listener = FALSE]
               ELSE [whip EXCEPT !.ice = state]
    /\ UNCHANGED whipFrame

\* the ICE_TIMEOUT timer fires (daydream.ts:166); it is never cleared
IceTimeout ==
    /\ whip.timer = "armed"
    /\ whip' = IF whip.pc = "gathering"
               THEN PostOffer([whip EXCEPT !.timer = "fired"], "timeout")
               ELSE [whip EXCEPT !.timer = "fired"]
    /\ UNCHANGED whipFrame

\* the fetch settles (daydream.ts:171-184)
PostDone(result) ==
    /\ whip.pc = "posting"
    /\ whip' = [whip EXCEPT !.pc = AfterPost(result), !.response = result]
    /\ UNCHANGED whipFrame

\* response.text() settles; setRemoteDescription is awaited (daydream.ts:184-188)
TextDone(ok) ==
    /\ whip.pc = "text"
    /\ whip' = [whip EXCEPT !.pc = IF ok THEN "setRemote" ELSE "failed"]
    /\ UNCHANGED whipFrame

\* setRemoteDescription settles; return pc (daydream.ts:185-190)
SetRemoteDone(ok) ==
    /\ whip.pc = "setRemote"
    /\ whip' = IF ok THEN [whip EXCEPT !.pc = "returned", !.remote = TRUE]
               ELSE [whip EXCEPT !.pc = "failed"]
    /\ UNCHANGED whipFrame

\* SpecWhip: calls of startWhipPublish one after the other, with every
\* outcome of each awaited call, the gathering state changing at any time and
\* the timer firing at any time after it was armed.
NextWhip ==
    \/ StartWhipPublish
    \/ \E ok \in BOOLEAN : CreateOfferDone(ok)
    \/ \E ok \in BOOLEAN, state \in {"new", "gathering", "complete"} : SetLocalDone(ok, state)
    \/ \E state \in {"gathering", "complete"} : IceGatheringStateChange(state)
    \/ IceTimeout
    \/ \E result \in {"ok", "notOk", "rejected"} : PostDone(result)
    \/ \E ok \in BOOLEAN : TextDone(ok)
    \/ \E ok \in BOOLEAN : SetRemoteDone(ok)

SpecWhip == InitStream /\ [][NextWhip]_vars

\* the offer is posted in this step
OfferPosted == whip'.posts > whip.posts

\* C37: a call posts the offer at most once, and has posted it exactly once
\* whenever it got past the gathering wait; the post happens in a step where
\* the gathering state is 'complete' or the timer has fired, after the
\* local description was set; a remote description is set and the connection
\* returned only after an OK response; a call that got a non-OK response has
\* failed with no remote description set.
C37_OfferPostedOnceAfterGathering ==
    /\ [] /\ whip.posts <= 1
          /\ whip.pc \in {"posting", "text", "setRemote", "returned"} => whip.posts = 1
          /\ whip.pc \in {"idle", "createOffer", "setLocal", "gathering"} => whip.posts = 0
          /\ whip.remote \/ whip.pc \in {"text", "setRemote", "returned"}
               => whip.response = "ok"
          /\ whip.pc = "returned" <=> whip.remote
          /\ whip.response \in {"notOk", "rejected"} => whip.pc = "failed" /\ ~whip.remote
    /\ [][ OfferPosted =>
             /\ whip.pc \in {"setLocal", "gathering"}
             /\ whip'.timer # "none"
             /\ \/ whip'.ice = "complete" /\ whip'.postedOn = "complete"
                \/ whip'.timer = "fired" /\ whip'.postedOn = "timeout" ]_vars

\* a call returned the connection after the timeout ended the gathering wait
C37_Witness ==
    /\ whip.pc = "returned"
    /\ whip.postedOn = "timeout"
    /\ whip.posts = 1
    /\ whip.remote

\* a call failed on a non-OK response after gathering had completed
C37_RefusedWitness ==
    /\ whip.pc = "failed"
    /\ whip.response = "notOk"
    /\ whip.postedOn = "complete"

\* --------------------------------------------------- updateDaydreamPrompts
promptsFrame == << create, update, whip, studioVars, loginVars, redeemVars, likesVars >>

\* one entry of params.controlnets: enabled is "omitted", "true" or "false",
\* preprocessor_params "omitted" or its text; conditioning_scale in tenths
Controlnet(enabled, model, preprocessor, pparams, scale) ==
    [ enabled |-> enabled, model_id |-> model, preprocessor |-> preprocessor,
      preprocessor_params |-> pparams, conditioning_scale |-> scale ]

\* daydream.ts:200-222
defaultControlnets ==
    << Controlnet("true", "xinsir/controlnet-depth-sdxl-1.0", "depth_tensorrt", "{}", 3),
       Controlnet("true", "xinsir/controlnet-canny-sdxl-1.0", "canny", "{}", 0),
       Controlnet("true", "xinsir/controlnet-tile-sdxl-1.0", "feedback", "{}", 0) >>

\* a || b for an optional string, an optional number and an optional object
\* or array: an omitted value, '' and 0 are falsy, objects and arrays are not
OrString(f, d) == IF f.given /\ f.value # "" THEN f.value ELSE d

OrNumber(f, d) == IF f.given /\ f.value # 0 THEN f.value ELSE d

OrObject(f, d) == IF f.given THEN f.value ELSE d

\* { enabled: true, preprocessor_params: {}, ...cn }: the properties cn
\* carries replace the two written before the spread (daydream.ts:224-228)
MergeControlnet(cn) ==
    [ cn EXCEPT
        !.enabled = IF cn.enabled = "omitted" THEN "true" ELSE cn.enabled,
        !.preprocessor_params = IF cn.preprocessor_params = "omitted" THEN "{}"
                                ELSE cn.preprocessor_params ]

mergedControlnets(params) ==
    LET list == OrObject(params.controlnets, defaultControlnets)
    IN [i \in 1..Len(list) |-> MergeControlnet(list[i])]

DefaultIpAdapter == "disabled regular"

\* body.params (daydream.ts:232-253)
RequestBody(params) ==
    [ model_id |-> OrString(params.model_id, "stabilityai/sdxl-turbo"),
      prompt |-> params.prompt,
      negative_prompt |->
          OrString(params.negative_prompt, "blurry, low quality, flat, 2d, distorted"),
      num_inference_steps |-> OrNumber(params.num_inference_steps, 50),
      seed |-> OrNumber(params.seed, 42),
      t_index_list |-> OrObject(params.t_index_list, << 6, 12, 18 >>),
      controlnets |-> mergedControlnets(params),
      ip_adapter |-> OrObject(params.ip_adapter, DefaultIpAdapter),
      ip_adapter_style_image_url |->
          IF params.ip_adapter_style_image_url.given
             /\ params.ip_adapter_style_image_url.value # ""
          THEN params.ip_adapter_style_image_url
          ELSE Omitted("") ]

\* the controlnets lists a caller passes
CallerControlnets ==
    { << >>,
      << Controlnet("omitted", "depth", "depth_tensorrt", "omitted", 5) >>,
      << Controlnet("true", "depth", "depth_tensorrt", "{}", 5),
         Controlnet("false", "canny", "canny", "{low: 100}", 0) >> }

\* the arguments updateDaydreamPrompts is called with
ParamSets ==
    [ model_id : {Omitted(""), Given(""), Given("stabilityai/sd-turbo")},
      prompt : {"a prompt"},
      negative_prompt : {Omitted(""), Given(""), Given("text")},
      num_inference_steps : {Omitted(0), Given(0), Given(25)},
      seed : {Omitted(0), Given(0), Given(7)},
      t_index_list : {Omitted(<< >>), Given(<< >>), Given(<< 1, 2 >>)},
      controlnets : {Omitted(<< >>)} \cup { Given(l) : l \in CallerControlnets },
      ip_adapter : {Omitted(""), Given("enabled faceid")},
      ip_adapter_style_image_url : {Omitted(""), Given("https://image")} ]

\* updateDaydreamPrompts is called: the body is built and the edge function
\* invoked (daydream.ts:195-257)
UpdateDaydreamPrompts ==
    /\ prompts.pc = "idle"
    /\ prompts' = [prompts EXCEPT !.pc = "invoking", !.body = RequestBody(prompts.params)]
    /\ UNCHANGED promptsFrame

\* the invocation settles: if (error) throw error (daydream.ts:255-259)
PromptsSettled(ok) ==
    /\ prompts.pc = "invoking"
    /\ prompts' = [prompts EXCEPT !.pc = IF ok THEN "returned" ELSE "thrown"]
    /\ UNCHANGED promptsFrame

\* SpecPrompts: one call of updateDaydreamPrompts with every argument in
\* ParamSets.
InitPrompts ==
    /\ StudioIdle
    /\ create = NoCreate
    /\ update = NoUpdate
    /\ whip = NoWhip
    /\ prompts \in { [NoPrompts EXCEPT !.params = p] : p \in ParamSets }
    /\ LoginIdle
    /\ RedeemIdle
    /\ LikesFresh

NextPrompts ==
    \/ UpdateDaydreamPrompts
    \/ \E ok \in BOOLEAN : PromptsSettled(ok)

SpecPrompts == InitPrompts /\ [][NextPrompts]_vars

\* the body has been built and sent
BodySent == prompts.pc # "idle"

\* C38: every controlnet entry of a body that was sent has enabled = true,
\* whatever list the caller passed and for the default list.
C38_EveryControlnetEnabled ==
    BodySent =>
       \A i \in 1..Len(prompts.body.controlnets) : prompts.body.controlnets[i].enabled = "true"

\* the field was sent as the caller gave it, or with the default when omitted
SentAsGiven(f, sent, default) == sent = IF f.given THEN f.value ELSE default

\* C39: in a body that was sent, every field the caller supplied carries the
\* caller's value (0 for seed and num_inference_steps included), every
\* omitted field its default, and model_id is not empty.
C39_FieldsSentUnchanged ==
    BodySent =>
       LET p == prompts.params
           b == prompts.body
       IN /\ b.model_id # ""
          /\ p.model_id.given /\ p.model_id.value # "" => b.model_id = p.model_id.value
          /\ ~p.model_id.given => b.model_id = "stabilityai/sdxl-turbo"
          /\ b.prompt = p.prompt
          /\ SentAsGiven(p.negative_prompt, b.negative_prompt,
                         "blurry, low quality, flat, 2d, distorted")
          /\ SentAsGiven(p.num_inference_steps, b.num_inference_steps, 50)
          /\ SentAsGiven(p.seed, b.seed, 42)
          /\ SentAsGiven(p.t_index_list, b.t_index_list, << 6, 12, 18 >>)
          /\ SentAsGiven(p.ip_adapter, b.ip_adapter, DefaultIpAdapter)
====
